---------------------------- MODULE Spec2Model ----------------------------
(***************************************************************************)
(* A model of the CUQI-Book repository's own logic:                        *)
(*   - the deploy-book GitHub Actions workflow                             *)
(*     (.github/workflows/build_publish.yml);                              *)
(*   - the book configuration and table of contents (_config.yml, _toc)    *)
(*     as they decide which notebooks a build executes;                    *)
(*   - the plotting helper plot_pdf_2D of the notebooks;                   *)
(*   - the entropy cell and its quadrature call;                           *)
(*   - the notebooks' code cells, run top to bottom in one kernel.         *)
(* Each part has its own next-state relation and specification; the parts  *)
(* share no state, so a specification leaves the other parts' variables    *)
(* unchanged.                                                              *)
(***************************************************************************)
EXTENDS Integers, Sequences, FiniteSets, TLC

VARIABLES
    \* ---- deploy-book workflow ----
    mainHead,   \* number of commits pushed to branch main (its content version)
    events,     \* the repository events delivered so far, in order
    runs,       \* event index -> the workflow run that event started
    artifacts,  \* uploaded artifacts: records [run, name]
    ghPages,    \* content of branch gh-pages: the main commit it was built from (0: none)
    \* ---- book build ----
    config,     \* the loaded _config.yml: top-level key -> value ("unloaded" before)
    stale,      \* notebooks whose content changed since their outputs were cached
    cached,     \* notebooks with outputs in the execution cache
    executed,   \* notebooks executed by the most recent build
    builds,     \* number of builds made
    \* ---- plot_pdf_2D ----
    plot,       \* the activation record of one call of plot_pdf_2D
    \* ---- entropy notebook ----
    ent,        \* the cell computing x_entropy and the quadrature call it makes
    \* ---- notebook kernels ----
    kernel,     \* one notebook's kernel: position, bound variables, history
    \* ---- sampling cells of the Bayesian-inverse-problems notebook ----
    chain,      \* the sampler's stored samples and the variables samples, samples_final
    \* ---- source term f of the two-targets notebook ----
    source      \* the activation record of one call of f

wfVars   == <<mainHead, events, runs, artifacts, ghPages>>
bookVars == <<config, stale, cached, executed, builds>>
plotVars == <<plot>>
entVars  == <<ent>>
nbVars   == <<kernel>>
chainVars == <<chain>>
sourceVars == <<source>>
vars     == <<mainHead, events, runs, artifacts, ghPages,
              config, stale, cached, executed, builds, plot, ent, kernel, chain, source>>

(***************************************************************************)
(* Bounds of the model.                                                    *)
(***************************************************************************)
MaxEvents == 2

(***************************************************************************)
(* The deploy-book workflow.                                               *)
(***************************************************************************)

\* Branch names the repository may have; "main" is the one the workflow names.
Branches == {"main", "dev"}

\* A git ref: refs/<kind>/<name>.
Ref(kind, name) == [kind |-> kind, name |-> name]
RefsHeadsMain == Ref("heads", "main")

\* github.ref of a pull_request run: refs/pull/<n>/merge.
PullRef == Ref("pull", "merge")

\* The refs a push event can carry: a branch or a tag.
PushRefs == {Ref(k, b) : k \in {"heads", "tags"}, b \in Branches}

\* on.push.branches and on.pull_request.branches
OnPushBranches == {"main"}
OnPullRequestBranches == {"main"}

\* The workflow's trigger filter: a push of a listed branch (a tag push
\* matches no branches filter), or a pull request whose base is listed.
TriggersNoFilter(e) == e.event_name \in {"push", "pull_request"}
TriggersPushOnly(e) ==
    e.event_name = "push" /\ e.ref.kind = "heads" /\ e.ref.name \in OnPushBranches
Triggers(e) ==
    \/ /\ e.event_name = "push"
       /\ e.ref.kind = "heads"
       /\ e.ref.name \in OnPushBranches
    \/ /\ e.event_name = "pull_request"
       /\ e.base \in OnPullRequestBranches

\* jobs.deploy-book.steps, in file order.
Steps == << "checkout", "setup-python", "install", "build", "upload-artifact", "gh-pages" >>
NSteps == Len(Steps)
StepNo(name) == CHOOSE i \in 1..NSteps : Steps[i] = name
Done == NSteps + 1

\* The if: expression of step i evaluated in run r (a step without one: true).
StepIfAlways(i, r) == TRUE
StepIfSwapped(i, r) ==
    IF Steps[i] = "upload-artifact" THEN r.event_name = "push" /\ r.ref = RefsHeadsMain
    ELSE IF Steps[i] = "gh-pages" THEN r.event_name = "pull_request"
    ELSE TRUE
StepIf(i, r) ==
    IF Steps[i] = "upload-artifact" THEN r.event_name = "pull_request"
    ELSE IF Steps[i] = "gh-pages" THEN r.event_name = "push" /\ r.ref = RefsHeadsMain
    ELSE TRUE

\* No if: of the workflow calls a status function, so each step carries the
\* implicit success(): it runs only while no earlier step has failed.
StepRunsIgnoringFailure(i, r) == StepIf(i, r)
StepRuns(i, r) == (\A j \in 1..(i-1) : r.concl[j] # "failure") /\ StepIf(i, r)

Ran(c) == c \in {"success", "failure"}

NewRun(e) == [event_name |-> e.event_name, ref |-> e.ref, sha |-> e.sha,
              pc |-> 1, concl |-> [i \in 1..NSteps |-> "pending"],
              published |-> FALSE]

\* Delivery of event e: it is logged, and starts a run if the filter matches.
Deliver(e) ==
    /\ events' = Append(events, e)
    /\ runs' = IF Triggers(e)
               THEN [i \in DOMAIN runs \cup {Len(events) + 1} |->
                        IF i \in DOMAIN runs THEN runs[i] ELSE NewRun(e)]
               ELSE runs

\* A push of ref; a push of branch main adds a commit to main.
Push(ref) ==
    /\ Len(events) < MaxEvents
    /\ LET head == IF ref = RefsHeadsMain THEN mainHead + 1 ELSE mainHead
       IN  /\ mainHead' = head
           /\ Deliver([event_name |-> "push", ref |-> ref, base |-> "none",
                       sha |-> IF ref = RefsHeadsMain THEN head ELSE 0])
    /\ UNCHANGED <<artifacts, ghPages>>

\* A pull request against base is opened or updated; no branch changes.
PullRequest(base) ==
    /\ Len(events) < MaxEvents
    /\ Deliver([event_name |-> "pull_request", ref |-> PullRef, base |-> base,
                sha |-> 0])
    /\ UNCHANGED <<mainHead, artifacts, ghPages>>

\* Run k processes its next step: skipped, or executed with outcome ok.
RunStep(k, ok) ==
    /\ k \in DOMAIN runs
    /\ runs[k].pc <= NSteps
    /\ LET r == runs[k]
           i == r.pc
           c == IF ~StepRuns(i, r) THEN "skipped"
                ELSE IF ok THEN "success" ELSE "failure"
           uploads   == Steps[i] = "upload-artifact" /\ c = "success"
           publishes == Steps[i] = "gh-pages" /\ c = "success"
       IN  /\ runs' = [runs EXCEPT ![k].pc = i + 1,
                                   ![k].concl[i] = c,
                                   ![k].published = r.published \/ publishes]
           /\ artifacts' = IF uploads
                           THEN artifacts \cup {[run |-> k, name |-> "book"]}
                           ELSE artifacts
           /\ ghPages' = IF publishes THEN r.sha ELSE ghPages
    /\ UNCHANGED <<mainHead, events>>

WfInit ==
    /\ mainHead = 0
    /\ events = << >>
    /\ runs = [i \in {} |-> 0]
    /\ artifacts = {}
    /\ ghPages = 0

BookInit ==
    /\ config = [k \in {} |-> {}]
    /\ stale = {}
    /\ cached = {}
    /\ executed = {}
    /\ builds = 0

PlotInit == plot = [pc |-> "idle"]

EntInit == ent = [pc |-> "idle"]

NbInit == kernel = [status |-> "idle"]

ChainInit == chain = [pc |-> "idle"]

SourceInit == source = [pc |-> "idle"]

Init == WfInit /\ BookInit /\ PlotInit /\ EntInit /\ NbInit /\ ChainInit /\ SourceInit

Next ==
    \/ \E ref \in PushRefs : Push(ref) /\ UNCHANGED <<bookVars, plotVars, entVars, nbVars, chainVars, sourceVars>>
    \/ \E base \in Branches : PullRequest(base) /\ UNCHANGED <<bookVars, plotVars, entVars, nbVars, chainVars, sourceVars>>
    \/ \E k \in 1..MaxEvents, ok \in BOOLEAN :
          RunStep(k, ok) /\ UNCHANGED <<bookVars, plotVars, entVars, nbVars, chainVars, sourceVars>>

Spec == Init /\ [][Next]_vars

(***************************************************************************)
(* Claims about the deploy-book workflow (checked under Spec).             *)
(***************************************************************************)

Completed(r) == r.pc = Done
StepConcl(r, name) == r.concl[StepNo(name)]

\* C1: the built HTML is published to gh-pages only by a run whose event is
\* push and whose ref is refs/heads/main; a pull_request run never publishes,
\* and gh-pages holds nothing that no such run published.
C1_PublishOnlyOnPushToMain ==
    /\ \A k \in DOMAIN runs :
          /\ runs[k].published =>
                runs[k].event_name = "push" /\ runs[k].ref = RefsHeadsMain
          /\ runs[k].event_name = "pull_request" =>
                ~runs[k].published /\ ~Ran(StepConcl(runs[k], "gh-pages"))
    /\ ghPages # 0 =>
          \E k \in DOMAIN runs : runs[k].published /\ runs[k].sha = ghPages

\* C1 witness: a push run has published, and a pull_request run whose build
\* succeeded has completed.
C1_Witness ==
    /\ \E k \in DOMAIN runs : runs[k].published /\ ghPages = runs[k].sha
    /\ \E k \in DOMAIN runs :
          /\ runs[k].event_name = "pull_request"
          /\ Completed(runs[k])
          /\ StepConcl(runs[k], "build") = "success"

\* C2: in every run the steps are taken in the order checkout, setup-python,
\* install, build, then upload-artifact and gh-pages; the last two run only
\* after the build step succeeded; if install or build fails, the run
\* uploads no artifact and publishes nothing.
C2_StepOrderAndGating ==
    /\ SubSeq(Steps, 1, 4) = << "checkout", "setup-python", "install", "build" >>
    /\ \A k \in DOMAIN runs :
          LET r == runs[k] IN
          /\ \A i \in 1..NSteps :
                (r.concl[i] # "pending") <=> (i < r.pc)
          /\ \A i \in 1..NSteps :
                Ran(r.concl[i]) =>
                    \A j \in 1..(i-1) : r.concl[j] \in {"success", "skipped"}
          /\ (Ran(StepConcl(r, "upload-artifact")) \/ Ran(StepConcl(r, "gh-pages")))
                => StepConcl(r, "build") = "success"
          /\ (StepConcl(r, "install") = "failure" \/ StepConcl(r, "build") = "failure")
                => /\ ~r.published
                   /\ ~\E a \in artifacts : a.run = k
                   /\ ~Ran(StepConcl(r, "upload-artifact"))
                   /\ ~Ran(StepConcl(r, "gh-pages"))

\* C2 witness: a push run and a pull_request run have both completed after
\* their build step failed.
C2_Witness ==
    \E k1, k2 \in DOMAIN runs :
        /\ runs[k1].event_name = "push"
        /\ runs[k2].event_name = "pull_request"
        /\ Completed(runs[k1]) /\ Completed(runs[k2])
        /\ StepConcl(runs[k1], "build") = "failure"
        /\ StepConcl(runs[k2], "build") = "failure"

C5_RunsOnlyWhenMainChanges ==
    [][(DOMAIN runs' # DOMAIN runs) => (mainHead' # mainHead)]_vars

\* C6: in a completed run whose build succeeded, the upload-artifact step
\* (artifact name book) runs exactly when the event is pull_request, only
\* such a run holds an artifact, and exactly one of the steps upload-artifact
\* and gh-pages runs.
C6_ExactlyOneOfUploadPublish ==
    /\ \A a \in artifacts : a.name = "book" /\ runs[a.run].event_name = "pull_request"
    /\ \A k \in DOMAIN runs :
          LET r == runs[k] IN
          (Completed(r) /\ StepConcl(r, "build") = "success")
          => /\ Ran(StepConcl(r, "upload-artifact")) <=> r.event_name = "pull_request"
             /\ (StepConcl(r, "upload-artifact") = "success")
                   <=> (\E a \in artifacts : a.run = k)
             /\ Ran(StepConcl(r, "upload-artifact")) # Ran(StepConcl(r, "gh-pages"))

\* C6 witness: a pull_request run uploaded its artifact and a push run
\* published, both completed.
C6_Witness ==
    \E k1, k2 \in DOMAIN runs :
        /\ Completed(runs[k1]) /\ Completed(runs[k2])
        /\ runs[k1].event_name = "pull_request"
        /\ \E a \in artifacts : a.run = k1
        /\ runs[k2].event_name = "push"
        /\ runs[k2].published

\* C21 (as stated): once every run started by a push to main has finished
\* (here: with all its steps successful), gh-pages holds the HTML built from
\* the most recent commit pushed to main, whatever the interleaving of runs.
C21_GhPagesHoldsLatestCommit ==
    LET mainRuns == {k \in DOMAIN runs :
                        runs[k].event_name = "push" /\ runs[k].ref = RefsHeadsMain}
    IN  ( /\ mainRuns # {}
          /\ \A k \in mainRuns :
                /\ Completed(runs[k])
                /\ \A i \in 1..NSteps : runs[k].concl[i] \in {"success", "skipped"} )
        => ghPages = mainHead


(***************************************************************************)
(* The book build: _config.yml, the table of contents, and the notebooks   *)
(* a build executes.  File names and patterns are sequences of characters, *)
(* so that pattern matching is computed, not assumed.                      *)
(***************************************************************************)
MaxStale == 2
MaxBuilds == 2

\* The table of contents, in file order: each entry's path as listed (its
\* directory and its last component).
TocFiles == <<
    [id |-> "chapter01", dir |-> "chapter01",
     name |-> <<"c", "h", "a", "p", "t", "e", "r", "0", "1">>],
    [id |-> "overview_of_cuqipy", dir |-> "chapter01",
     name |-> <<"o", "v", "e", "r", "v", "i", "e", "w", "_", "o", "f", "_", "c", "u", "q", "i", "p", "y">>],
    [id |-> "run_mini_book", dir |-> "chapter01",
     name |-> <<"r", "u", "n", "_", "m", "i", "n", "i", "_", "b", "o", "o", "k", ".", "m", "d">>],
    [id |-> "intro_example_short", dir |-> "chapter01",
     name |-> <<"i", "n", "t", "r", "o", "_", "e", "x", "a", "m", "p", "l", "e", "_", "s", "h", "o", "r", "t", ".", "i", "p", "y", "n", "b">>],
    [id |-> "intro_example_long", dir |-> "chapter01",
     name |-> <<"i", "n", "t", "r", "o", "_", "e", "x", "a", "m", "p", "l", "e", "_", "l", "o", "n", "g", ".", "i", "p", "y", "n", "b">>],
    [id |-> "chapter02", dir |-> "chapter02",
     name |-> <<"c", "h", "a", "p", "t", "e", "r", "0", "2">>],
    [id |-> "two_forward_problems", dir |-> "chapter02",
     name |-> <<"t", "w", "o", "_", "f", "o", "r", "w", "a", "r", "d", "_", "p", "r", "o", "b", "l", "e", "m", "s", ".", "i", "p", "y", "n", "b">>],
    [id |-> "two_target_distributions", dir |-> "chapter02",
     name |-> <<"t", "w", "o", "_", "t", "a", "r", "g", "e", "t", "_", "d", "i", "s", "t", "r", "i", "b", "u", "t", "i", "o", "n", "s", ".", "i", "p", "y", "n", "b">>],
    [id |-> "chapter03", dir |-> "chapter03",
     name |-> <<"c", "h", "a", "p", "t", "e", "r", "0", "3">>],
    [id |-> "basics_distributions", dir |-> "chapter03",
     name |-> <<"b", "a", "s", "i", "c", "s", "_", "d", "i", "s", "t", "r", "i", "b", "u", "t", "i", "o", "n", "s", ".", "i", "p", "y", "n", "b">>],
    [id |-> "basics_forward_models", dir |-> "chapter03",
     name |-> <<"b", "a", "s", "i", "c", "s", "_", "f", "o", "r", "w", "a", "r", "d", "_", "m", "o", "d", "e", "l", "s", ".", "i", "p", "y", "n", "b">>],
    [id |-> "basics_bayesian_inverse_problems", dir |-> "chapter03",
     name |-> <<"b", "a", "s", "i", "c", "s", "_", "b", "a", "y", "e", "s", "i", "a", "n", "_", "i", "n", "v", "e", "r", "s", "e", "_", "p", "r", "o", "b", "l", "e", "m", "s", ".", "i", "p", "y", "n", "b">>],
    [id |-> "chapter04", dir |-> "chapter04",
     name |-> <<"c", "h", "a", "p", "t", "e", "r", "0", "4">>],
    [id |-> "gibbs", dir |-> "chapter04",
     name |-> <<"g", "i", "b", "b", "s", ".", "i", "p", "y", "n", "b">>],
    [id |-> "demo_ct", dir |-> "chapter04/Plugins/CUQIpy-CIL",
     name |-> <<"d", "e", "m", "o", "_", "c", "t", ".", "i", "p", "y", "n", "b">>],
    [id |-> "core_pde", dir |-> "chapter04/PDE",
     name |-> <<"c", "o", "r", "e", "_", "p", "d", "e", ".", "i", "p", "y", "n", "b">>],
    [id |-> "poisson_2D_fenics", dir |-> "chapter04/Plugins/CUQIpy-FEniCS",
     name |-> <<"p", "o", "i", "s", "s", "o", "n", "_", "2", "D", "_", "f", "e", "n", "i", "c", "s", ".", "i", "p", "y", "n", "b">>],
    [id |-> "hmc", dir |-> "chapter04/Plugins/CUQIpy-PyTorch",
     name |-> <<"h", "m", "c", ".", "i", "p", "y", "n", "b">>],
    [id |-> "chapter05", dir |-> "chapter05",
     name |-> <<"c", "h", "a", "p", "t", "e", "r", "0", "5">>],
    [id |-> "geometries_in_cuqipy", dir |-> "chapter05",
     name |-> <<"g", "e", "o", "m", "e", "t", "r", "i", "e", "s", "_", "i", "n", "_", "c", "u", "q", "i", "p", "y", ".", "i", "p", "y", "n", "b">>],
    [id |-> "chapter06", dir |-> "chapter06",
     name |-> <<"c", "h", "a", "p", "t", "e", "r", "0", "6">>],
    [id |-> "markov_random_fields", dir |-> "chapter06",
     name |-> <<"m", "a", "r", "k", "o", "v", "_", "r", "a", "n", "d", "o", "m", "_", "f", "i", "e", "l", "d", "s", ".", "i", "p", "y", "n", "b">>],
    [id |-> "entropy", dir |-> "chapter06",
     name |-> <<"e", "n", "t", "r", "o", "p", "y", ".", "i", "p", "y", "n", "b">>],
    [id |-> "chapter07", dir |-> "chapter07",
     name |-> <<"c", "h", "a", "p", "t", "e", "r", "0", "7">>],
    [id |-> "more_theory_on_sampling_with_cuqipy", dir |-> "chapter07",
     name |-> <<"m", "o", "r", "e", "_", "t", "h", "e", "o", "r", "y", "_", "o", "n", "_", "s", "a", "m", "p", "l", "i", "n", "g", "_", "w", "i", "t", "h", "_", "c", "u", "q", "i", "p", "y", ".", "i", "p", "y", "n", "b">>],
    [id |-> "chapter08", dir |-> "chapter08",
     name |-> <<"c", "h", "a", "p", "t", "e", "r", "0", "8">>]
>>

TocIds == {TocFiles[i].id : i \in 1..Len(TocFiles)}
TocIndex(id) == CHOOSE i \in 1..Len(TocFiles) : TocFiles[i].id = id
FileNameOf(id) == TocFiles[TocIndex(id)].name

\* A listed file is a notebook when its name ends in .ipynb.
NotebookSuffix == <<".", "i", "p", "y", "n", "b">>
EndsWith(s, suffix) ==
    /\ Len(s) >= Len(suffix)
    /\ SubSeq(s, Len(s) - Len(suffix) + 1, Len(s)) = suffix
TocNotebooks == {id \in TocIds : EndsWith(FileNameOf(id), NotebookSuffix)}

\* execute.exclude_patterns
ExcludePatternsNoHmc == <<
    <<"p", "o", "i", "s", "s", "o", "n", "_", "2", "D", "_", "f", "e", "n", "i", "c", "s", "*">>,
    <<"d", "e", "m", "o", "_", "c", "t", "*">>,
    <<"s", "k", "e", "t", "c", "h", "*">>,
    <<"c", "o", "r", "e", "_", "p", "d", "e", "*">>
>>
ExcludePatterns == <<
    <<"h", "m", "c", "*">>,
    <<"p", "o", "i", "s", "s", "o", "n", "_", "2", "D", "_", "f", "e", "n", "i", "c", "s", "*">>,
    <<"d", "e", "m", "o", "_", "c", "t", "*">>,
    <<"s", "k", "e", "t", "c", "h", "*">>,
    <<"c", "o", "r", "e", "_", "p", "d", "e", "*">>
>>

\* Shell-style matching of a whole name against a pattern: "*" matches any
\* run of characters, "?" any one character, any other character itself.
RECURSIVE GlobMatch(_, _)
GlobMatch(pat, s) ==
    IF pat = << >> THEN s = << >>
    ELSE IF Head(pat) = "*"
         THEN \/ GlobMatch(Tail(pat), s)
              \/ s # << >> /\ GlobMatch(pat, Tail(s))
    ELSE /\ s # << >>
         /\ Head(pat) = "?" \/ Head(pat) = Head(s)
         /\ GlobMatch(Tail(pat), Tail(s))

\* A notebook is excluded from execution when some exclusion pattern matches
\* its path; a pattern without "/" is matched against the last component.
IsExcludedNoHmc(id) ==
    \E i \in 1..Len(ExcludePatternsNoHmc) :
        GlobMatch(ExcludePatternsNoHmc[i], FileNameOf(id))
IsExcluded(id) ==
    \E i \in 1..Len(ExcludePatterns) : GlobMatch(ExcludePatterns[i], FileNameOf(id))

ExcludedNotebooks == {id \in TocNotebooks : IsExcluded(id)}
EligibleNotebooks == TocNotebooks \ ExcludedNotebooks

\* The top-level entries of _config.yml, in file order.  A value is the set
\* of <<key path, scalar text>> pairs of the entry's block (a list value
\* keeps its length; execute.exclude_patterns is ExcludePatterns above).
ConfigEntries == <<
    [key |-> "title",  value |-> {<<"", "Uncertainty Quantification in Inverse Problems with CUQIpy">>}],
    [key |-> "author", value |-> {<<"", "CUQIpy developer team">>}],
    [key |-> "logo",   value |-> {<<"", "images/logo.png">>}],
    [key |-> "execute",
     value |-> {<<"execute_notebooks", "cache">>, <<"exclude_patterns", "list of 5">>}],
    [key |-> "latex",
     value |-> {<<"latex_documents.targetname", "book.tex">>,
                <<"latex_engine", "pdflatex">>,
                <<"use_jupyterbook_latex", "true">>}],
    [key |-> "bibtex_bibfiles", value |-> {<<"", "list of 1">>}],
    [key |-> "repository",
     value |-> {<<"url", "https://github.com/CUQI-DTU/CUQI-Book">>,
                <<"path_to_book", "/">>,
                <<"branch", "master">>}],
    [key |-> "html",
     value |-> {<<"use_issues_button", "true">>,
                <<"use_repository_button", "true">>,
                <<"navbar_number_sections", "true">>}],
    [key |-> "sphinx",
     value |-> {<<"extra_extensions", "list of 1">>,
                <<"nb_execution_timeout", "100000">>,
                <<"config.mathjax_path", "https://cdn.jsdelivr.net/npm/mathjax@3/es5/tex-mml-chtml.js">>}],
    [key |-> "launch_buttons",
     value |-> {<<"colab_url", "https://colab.research.google.com">>,
                <<"thebe", "true">>}],
    [key |-> "license",
     value |-> {<<"name", "Apache 2.0">>,
                <<"url", "https://www.apache.org/licenses/LICENSE-2.0">>}],
    [key |-> "html",
     value |-> {<<"extra_footer", "<p> <a href=... target=_blank>Apache 2.0 License</a> </p>">>}]
>>

\* Loading a YAML mapping: the entries are assigned to the mapping in file
\* order, so an entry whose key was already seen replaces the earlier value.
RECURSIVE ConstructMapping(_)
ConstructMapping(entries) ==
    IF entries = << >> THEN [k \in {} |-> {}]
    ELSE LET n == Len(entries)
             m == ConstructMapping(SubSeq(entries, 1, n - 1))
             e == entries[n]
         IN  [k \in DOMAIN m \cup {e.key} |-> IF k = e.key THEN e.value ELSE m[k]]

\* The setting section.key of a loaded configuration has the value text.
Setting(cfg, section, key, text) ==
    section \in DOMAIN cfg /\ <<key, text>> \in cfg[section]
HasSetting(cfg, section, key) ==
    section \in DOMAIN cfg /\ \E p \in cfg[section] : p[1] = key

\* The notebooks a build executes under execute.execute_notebooks = mode:
\* force runs every eligible notebook; cache (and auto) only those with no
\* up-to-date outputs; off none.
ToExecute(mode) ==
    IF mode = "force" THEN EligibleNotebooks
    ELSE IF mode = "cache" \/ mode = "auto"
         THEN {n \in EligibleNotebooks : n \notin cached \/ n \in stale}
    ELSE {}

ExecuteMode(cfg) ==
    CHOOSE mode \in {"force", "cache", "auto", "off"} :
        Setting(cfg, "execute", "execute_notebooks", mode)

\* An author changes the content of a listed notebook.
EditNotebook(nb) ==
    /\ nb \in TocNotebooks
    /\ nb \notin stale
    /\ Cardinality(stale) < MaxStale
    /\ stale' = stale \cup {nb}
    /\ UNCHANGED <<config, cached, executed, builds>>

\* jupyter-book build . : load _config.yml, then execute the notebooks the
\* execution policy selects and cache their outputs.
Build ==
    /\ builds < MaxBuilds
    /\ LET cfg == ConstructMapping(ConfigEntries)
           run == ToExecute(ExecuteMode(cfg))
       IN  /\ config' = cfg
           /\ executed' = run
           /\ cached' = cached \cup run
           /\ stale' = stale \ run
    /\ builds' = builds + 1

BookNext ==
    \/ \E nb \in TocNotebooks : EditNotebook(nb) /\ UNCHANGED <<wfVars, plotVars, entVars, nbVars, chainVars, sourceVars>>
    \/ Build /\ UNCHANGED <<wfVars, plotVars, entVars, nbVars, chainVars, sourceVars>>

SpecBook == Init /\ [][BookNext]_vars

(***************************************************************************)
(* Claims about the book build (checked under SpecBook).                   *)
(***************************************************************************)

\* C7 as stated: every build executes every notebook that no exclusion
\* pattern matches, whether or not it changed since the previous build.
C7_EveryBuildExecutesAll ==
    builds > 0 => executed = {n \in TocNotebooks : ~IsExcluded(n)}

\* C8: a build executes no notebook whose file name matches one of the
\* exclusion patterns; of the notebooks the table of contents lists, exactly
\* demo_ct, core_pde, poisson_2D_fenics and hmc are excluded, and every
\* other listed notebook is eligible: it has been executed once a build
\* has been made.
C8_ExcludedNeverExecuted ==
    /\ \A n \in executed :
          \A i \in 1..Len(ExcludePatterns) :
              ~GlobMatch(ExcludePatterns[i], FileNameOf(n))
    /\ {n \in TocNotebooks : IsExcluded(n)}
          = {"demo_ct", "core_pde", "poisson_2D_fenics", "hmc"}
    /\ builds > 0 =>
          cached = TocNotebooks \ {"demo_ct", "core_pde", "poisson_2D_fenics", "hmc"}

\* C8 witness: an excluded notebook and an eligible one were both changed,
\* and the build that followed executed the eligible one only.
C8_Witness ==
    /\ builds > 1
    /\ "hmc" \in stale
    /\ executed = {"gibbs"}

\* C9 as stated: the loaded configuration has html.use_issues_button,
\* html.use_repository_button and html.navbar_number_sections true, together
\* with the html.extra_footer text.
C9_GithubButtonsEnabled ==
    builds > 0 =>
        /\ Setting(config, "html", "use_issues_button", "true")
        /\ Setting(config, "html", "use_repository_button", "true")
        /\ Setting(config, "html", "navbar_number_sections", "true")
        /\ HasSetting(config, "html", "extra_footer")

(***************************************************************************)
(* plot_pdf_2D(distb, x1_min, x1_max, x2_min, x2_max, N2=201): one call,   *)
(* followed step by step.  The density values themselves play no part in   *)
(* the control flow; the record keeps the sizes, the loop indices and the  *)
(* number of evaluations.                                                  *)
(***************************************************************************)
MaxN2 == 4

\* The default of the parameter N2, and the value the body's first
\* statement assigns to it.
DefaultN2 == 201
BodyN2 == 201

\* The grid resolutions a caller passes: small ones, and none (the default).
CallerN2 == (2..MaxN2) \cup {DefaultN2}

\* The body's first statement, N2 = 201: the local N2 after it.
RebindN2(n) == BodyN2

\* The values distb.logd may return (log-densities), and np.exp of one:
\* kept symbolic, so that a cell holding exp(v) differs from one holding v.
LogdValues == {-1, 0}
Exp(v) == [exp |-> v]

\* The call binds N2, rebinds it, and allocates: ls1 and ls2 with N2 points
\* each (np.linspace), distb_pdf as an N2 by N2 array of zeros.
\* Of the array the record keeps: the number of cell writes, the last write
\* <<ii, jj, value>>, the columns written in the current row, the number of
\* finished rows, and whether some write hit a cell already written.
PlotCall(n) ==
    /\ plot.pc = "idle"
    /\ LET N2 == RebindN2(n) IN
       plot' = [pc |-> "loop", arg |-> n, N2 |-> N2,
                ls1 |-> N2, ls2 |-> N2, shape |-> <<N2, N2>>,
                ii |-> 0, jj |-> 0, evals |-> 0,
                writes |-> 0, last |-> << >>, rowCols |-> {}, rowsDone |-> 0,
                dup |-> FALSE, raisedAt |-> 0, nplot2d |-> 0,
                plot2d |-> << >>]

\* for ii in range(N2): for jj in range(N2): the indices after one pass of
\* the inner body at (ii, jj).
LoopAdvanceShortRow(ii, jj, N2) ==
    IF jj + 1 >= N2 - 1 THEN <<ii + 1, 0>> ELSE <<ii, jj + 1>>
LoopAdvance(ii, jj, N2) ==
    IF jj + 1 = N2 THEN <<ii + 1, 0>> ELSE <<ii, jj + 1>>

\* One pass of the inner loop body when distb.logd returns v:
\* distb_pdf[ii,jj] = np.exp(v), then the next jj, or the next ii when the
\* row is finished.
PlotCell(v) ==
    /\ plot.pc = "loop"
    /\ plot.ii < plot.N2
    /\ LET nxt == LoopAdvance(plot.ii, plot.jj, plot.N2)
           rowEnds == nxt[1] # plot.ii
       IN  plot' = [plot EXCEPT !.evals = @ + 1,
                                !.writes = @ + 1,
                                !.last = <<plot.ii, plot.jj, Exp(v)>>,
                                !.dup = @ \/ plot.jj \in plot.rowCols,
                                !.rowCols = IF rowEnds THEN {} ELSE @ \cup {plot.jj},
                                !.rowsDone =
                                    IF rowEnds /\ plot.rowCols \cup {plot.jj} = 0..(plot.N2 - 1)
                                    THEN @ + 1 ELSE @,
                                !.ii = nxt[1],
                                !.jj = nxt[2]]

\* distb.logd raises at (ii, jj).  The body has no try: the exception leaves
\* the loops and the function at once, before the cell is written.
PlotRaiseSwallowed ==
    /\ plot.pc = "loop"
    /\ plot.ii < plot.N2
    /\ plot.raisedAt = 0
    /\ LET nxt == LoopAdvance(plot.ii, plot.jj, plot.N2) IN
       plot' = [plot EXCEPT !.evals = @ + 1,
                            !.raisedAt = plot.evals + 1,
                            !.ii = nxt[1],
                            !.jj = nxt[2]]
PlotRaise ==
    /\ plot.pc = "loop"
    /\ plot.ii < plot.N2
    /\ plot' = [plot EXCEPT !.pc = "raised",
                            !.evals = @ + 1,
                            !.raisedAt = plot.evals + 1]

\* After the loops: plot2d(distb_pdf, x1_min, x1_max, x2_min, x2_max, N2),
\* recorded as the shape of the array and the N2 it is handed.
PlotPlot2d ==
    /\ plot.pc = "loop"
    /\ plot.ii = plot.N2
    /\ plot' = [plot EXCEPT !.pc = "done",
                            !.nplot2d = @ + 1,
                            !.plot2d = <<plot.shape[1], plot.shape[2], plot.N2>>]

\* The call returns, or the exception reaches the calling cell.
PlotReturn ==
    /\ plot.pc \in {"done", "raised"}
    /\ plot' = [pc |-> "idle"]

PlotNext ==
    \/ \E n \in CallerN2 : PlotCall(n) /\ UNCHANGED <<wfVars, bookVars, entVars, nbVars, chainVars, sourceVars>>
    \/ \E v \in LogdValues : PlotCell(v) /\ UNCHANGED <<wfVars, bookVars, entVars, nbVars, chainVars, sourceVars>>
    \/ PlotRaise /\ UNCHANGED <<wfVars, bookVars, entVars, nbVars, chainVars, sourceVars>>
    \/ PlotPlot2d /\ UNCHANGED <<wfVars, bookVars, entVars, nbVars, chainVars, sourceVars>>
    \/ PlotReturn /\ UNCHANGED <<wfVars, bookVars, entVars, nbVars, chainVars, sourceVars>>

SpecPlot == Init /\ [][PlotNext]_vars

(***************************************************************************)
(* Claims about plot_pdf_2D (checked under SpecPlot).                      *)
(***************************************************************************)

\* C10 as stated: for every N2 >= 2 the caller passes, the grid has N2
\* points per axis and the array handed to plot2d is N2 by N2.
C10_GridResolutionIsArgument ==
    plot.pc # "idle" =>
        /\ plot.ls1 = plot.arg /\ plot.ls2 = plot.arg
        /\ plot.shape = <<plot.arg, plot.arg>>
        /\ plot.pc = "done" => plot.plot2d = <<plot.arg, plot.arg, plot.arg>>

\* C11: a call whose logd never raises evaluates logd once per grid cell in
\* row-major order (the k-th evaluation is for cell (k div N, k mod N)),
\* writes each cell once with the exponential of that value, can always take
\* its next step until all N*N cells are done, and then calls plot2d once.
C11_EachCellOnceRowMajor ==
    (plot.pc \in {"loop", "done"}) =>
        /\ plot.evals = plot.writes
        /\ plot.writes = plot.ii * plot.N2 + plot.jj
        /\ plot.writes > 0 =>
              /\ plot.last[1] = (plot.writes - 1) \div plot.N2
              /\ plot.last[2] = (plot.writes - 1) % plot.N2
              /\ plot.last[3] \in {Exp(v) : v \in LogdValues}
        /\ ~plot.dup
        /\ plot.rowCols = 0..(plot.jj - 1)
        /\ plot.rowsDone = plot.ii
        /\ plot.pc = "loop" =>
              /\ plot.nplot2d = 0
              /\ \/ plot.ii < plot.N2 /\ plot.jj < plot.N2
                 \/ plot.ii = plot.N2 /\ plot.jj = 0
        /\ plot.pc = "done" =>
              /\ plot.evals = plot.N2 * plot.N2
              /\ plot.rowsDone = plot.N2
              /\ plot.nplot2d = 1

\* C11 witness: a call has returned from plot2d after its last evaluation
\* wrote the last cell of the grid.
C11_Witness ==
    /\ plot.pc = "done"
    /\ plot.last = <<plot.N2 - 1, plot.N2 - 1, Exp(0)>>
    /\ plot.nplot2d = 1

\* C12: when logd raises at a grid point, the call ends there: the cell of
\* that evaluation is not written, no further evaluation is made, and
\* plot2d is not called.
C12_RaisePropagates ==
    (plot.pc # "idle" /\ plot.raisedAt # 0) =>
        /\ plot.pc = "raised"
        /\ plot.evals = plot.raisedAt
        /\ plot.writes = plot.raisedAt - 1
        /\ plot.nplot2d = 0
        /\ plot.plot2d = << >>

\* C12 witness: logd has raised in the middle of a row, after some cells
\* were written.
C12_Witness ==
    /\ plot.pc = "raised"
    /\ plot.ii = 1 /\ plot.jj = 1
    /\ plot.writes = plot.N2 + 1

(***************************************************************************)
(* The entropy notebook: x = Gaussian(0, 1), the closure entropy_integrand *)
(* and the cell that computes x_entropy with scipy.integrate.quad.         *)
(* Densities are kept as integers (hundredths).                            *)
(***************************************************************************)
MaxQuadEvals == 3

\* The points at which the quadrature routine may evaluate its integrand.
QuadPoints == {-2, -1, 0, 1, 2}

\* x = Gaussian(0, 1): its pdf and its logd at the points, in hundredths.
XDist == [pdf  |-> [v \in QuadPoints |-> IF v = 0 THEN 40
                                         ELSE IF v \in {-1, 1} THEN 24 ELSE 5],
          logd |-> [v \in QuadPoints |-> IF v = 0 THEN -92
                                         ELSE IF v \in {-1, 1} THEN -142 ELSE -292]]

\* entropy_integrand = lambda dist, val: dist.pdf(val)*dist.logd(val)
EntropyIntegrandLogdOnly(dist, val) == dist.logd[val]
EntropyIntegrand(dist, val) == dist.pdf[val] * dist.logd[val]

\* The estimate the routine forms from the integrand values it obtained
\* (a plain sum stands for the rule's weighted sum).
RECURSIVE QuadEstimate(_)
QuadEstimate(vals) ==
    IF vals = << >> THEN 0 ELSE Head(vals) + QuadEstimate(Tail(vals))

\* x_entropy = -1*sp_integrate.quad(...)[0]
XEntropyOfErr(ret) == -1 * ret[2]
XEntropyOf(ret) == -1 * ret[1]

\* The cell calls sp_integrate.quad(lambda val: entropy_integrand(x, val),
\* -np.inf, np.inf).
EntQuadCall ==
    /\ ent.pc = "idle"
    /\ ent' = [pc |-> "quad", calls |-> 1, a |-> "-inf", b |-> "inf",
               points |-> << >>, vals |-> << >>,
               ret |-> << >>, x_entropy |-> 0]

\* The routine evaluates the integrand it was handed at a point val.
EntQuadEval(val) ==
    /\ ent.pc = "quad"
    /\ Len(ent.points) < MaxQuadEvals
    /\ ent' = [ent EXCEPT !.points = Append(@, val),
                          !.vals = Append(@, EntropyIntegrand(XDist, val))]

\* The routine returns the pair (estimate, error estimate); the cell keeps
\* minus its first component as x_entropy.
EntQuadReturn(err) ==
    /\ ent.pc = "quad"
    /\ ent.points # << >>
    /\ LET ret == <<QuadEstimate(ent.vals), err>> IN
       ent' = [ent EXCEPT !.pc = "done", !.ret = ret, !.x_entropy = XEntropyOf(ret)]

EntNext ==
    \/ EntQuadCall /\ UNCHANGED <<wfVars, bookVars, plotVars, nbVars, chainVars, sourceVars>>
    \/ \E val \in QuadPoints :
          EntQuadEval(val) /\ UNCHANGED <<wfVars, bookVars, plotVars, nbVars, chainVars, sourceVars>>
    \/ \E err \in {1, 2} :
          EntQuadReturn(err) /\ UNCHANGED <<wfVars, bookVars, plotVars, nbVars, chainVars, sourceVars>>

SpecEntropy == Init /\ [][EntNext]_vars

(***************************************************************************)
(* Claims about the entropy cell (checked under SpecEntropy).              *)
(***************************************************************************)

\* C13: x_entropy comes from one call of the quadrature routine over
\* (-inf, +inf); every integrand value the routine obtains at a point val is
\* x.pdf(val) times x.logd(val); x_entropy is minus the first component of
\* the returned pair, whatever the error estimate is.
C13_EntropyByOneQuadCall ==
    ent.pc # "idle" =>
        /\ ent.calls = 1
        /\ ent.a = "-inf" /\ ent.b = "inf"
        /\ Len(ent.vals) = Len(ent.points)
        /\ \A i \in 1..Len(ent.points) :
              ent.vals[i] = XDist.pdf[ent.points[i]] * XDist.logd[ent.points[i]]
        /\ ent.pc = "done" =>
              /\ Len(ent.ret) = 2
              /\ ent.x_entropy = 0 - ent.ret[1]
              /\ ent.x_entropy + QuadEstimate(ent.vals) = 0

\* C13 witness: the routine has returned after evaluating the integrand at
\* two different points, with an error estimate that differs from minus the
\* estimate.
C13_Witness ==
    /\ ent.pc = "done"
    /\ Len(ent.points) >= 2
    /\ ent.points[1] # ent.points[2]
    /\ ent.x_entropy > 0
    /\ ent.ret[2] # ent.ret[1]

(***************************************************************************)
(* The notebooks' code cells.  A kernel runs one notebook's statements top *)
(* to bottom; env maps each bound kernel variable to what the model keeps  *)
(* of its value.                                                           *)
(***************************************************************************)

\* What the model keeps of a value: its kind, a distribution's name, its
\* unresolved conditioning variables and whether it can be sampled, the
\* variables of a joint / the keys of a strategy, whether a problem has data,
\* whether a sampler or a sample set holds warm-up samples, a function's
\* parameters and free global names, the noise level (in thousandths) of the
\* test problem an object came from, and the line that bound it.
Val(kind, line) ==
    [kind |-> kind, name |-> "", cond |-> {}, avail |-> TRUE, vars |-> {},
     data |-> FALSE, warm |-> FALSE, params |-> {}, frees |-> {}, noise |-> 0,
     line |-> line]

\* One top-level statement of a code cell: its first line in the file, its
\* cell, the names it reads before binding them and the names it binds.
\* noise is a noise_std argument and exactStd the std of an exact=1/std**2
\* argument for variable s, both in thousandths (0: not given).
Stmt(line, cell, reads, binds) ==
    [line |-> line, cell |-> cell, reads |-> reads, binds |-> binds,
     op |-> "stmt", fn |-> "", tgt |-> "", src |-> "", src2 |-> "",
     keys |-> {}, args |-> {}, params |-> {}, frees |-> {}, npos |-> 0,
     guard |-> FALSE, catch |-> "", uses |-> {}, noise |-> 0, exactStd |-> 0]

\* src/unnamed/part_000: the code cells' statements in file order.
NbDistributions == <<
    [Stmt(50, 1, {}, {"np"}) EXCEPT !.op = "import"],
    [Stmt(51, 1, {}, {"plt"}) EXCEPT !.op = "import"],
    [Stmt(68, 2, {}, {"cuqi"}) EXCEPT !.op = "import"],
    [Stmt(97, 3, {"cuqi"}, {"x"}) EXCEPT !.op = "dist", !.fn = "Normal", !.tgt = "x",
        !.keys = {"mean", "std"}],
    Stmt(122, 4, {"x"}, {}),
    Stmt(123, 4, {"x"}, {}),
    Stmt(124, 4, {"x"}, {}),
    Stmt(148, 5, {"x"}, {}),
    Stmt(149, 5, {"x"}, {}),
    Stmt(166, 6, {"x"}, {}),
    Stmt(183, 7, {"np"}, {"grid"}),
    Stmt(184, 7, {"np", "grid"}, {"cdf_vals"}),
    Stmt(185, 7, {"grid", "x", "cdf_vals"}, {"k"}),
    Stmt(187, 7, {"plt", "grid", "cdf_vals"}, {}),
    Stmt(204, 8, {"plt", "grid", "x"}, {}),
    [Stmt(221, 9, {"x"}, {}) EXCEPT !.op = "sample", !.fn = "sample", !.src = "x"],
    [Stmt(238, 10, {"x"}, {"x_samples"}) EXCEPT !.op = "sample", !.fn = "sample",
        !.tgt = "x_samples", !.src = "x"],
    Stmt(239, 10, {"x_samples"}, {}),
    Stmt(264, 11, {"x_samples"}, {}),
    Stmt(281, 12, {"x_samples"}, {}),
    Stmt(298, 13, {"x_samples"}, {}),
    Stmt(315, 14, {"x_samples"}, {}),
    Stmt(356, 16, {"cuqi"}, {}),
    Stmt(383, 17, {"np"}, {"true_mu"}),
    Stmt(384, 17, {"np"}, {"true_sigma"}),
    [Stmt(385, 17, {"cuqi", "true_mu", "true_sigma"}, {"y"}) EXCEPT !.op = "dist",
        !.fn = "Gaussian", !.tgt = "y", !.keys = {"mean", "cov"},
        !.args = {"true_mu", "true_sigma"}],
    Stmt(402, 18, {"y"}, {}),
    Stmt(403, 18, {"y"}, {}),
    Stmt(404, 18, {"y"}, {}),
    Stmt(421, 19, {"y"}, {}),
    Stmt(438, 20, {"y"}, {}),
    [Stmt(455, 21, {"y"}, {}) EXCEPT !.op = "sample", !.fn = "sample", !.src = "y"],
    [Stmt(472, 22, {"y"}, {"y_samples"}) EXCEPT !.op = "sample", !.fn = "sample",
        !.tgt = "y_samples", !.src = "y"],
    Stmt(473, 22, {"y_samples"}, {}),
    Stmt(474, 22, {"y_samples"}, {}),
    Stmt(491, 23, {"y_samples"}, {}),
    Stmt(510, 24, {"y_samples"}, {}),
    Stmt(527, 25, {"y_samples"}, {}),
    Stmt(544, 26, {"y_samples"}, {}),
    Stmt(561, 27, {"y_samples"}, {}),
    Stmt(562, 27, {"plt", "y"}, {}),
    Stmt(563, 27, {"plt"}, {}),
    Stmt(580, 28, {"y_samples"}, {}),
    Stmt(581, 28, {"plt", "np", "y"}, {}),
    Stmt(582, 28, {"plt"}, {}),
    [Stmt(628, 30, {"cuqi"}, {"z"}) EXCEPT !.op = "dist", !.fn = "Normal", !.tgt = "z",
        !.keys = {"mean"}],
    Stmt(645, 31, {"z"}, {}),
    [Stmt(663, 32, {"z"}, {}) EXCEPT !.op = "sample", !.fn = "sample", !.src = "z", !.guard = TRUE,
        !.catch = "e"],
    [Stmt(683, 33, {"z"}, {}) EXCEPT !.op = "sample", !.fn = "sample", !.src = "z",
        !.keys = {"std"}],
    [Stmt(700, 34, {"z"}, {"z_given_std"}) EXCEPT !.op = "cond", !.tgt = "z_given_std",
        !.src = "z", !.keys = {"std"}],
    Stmt(701, 34, {"z_given_std"}, {}),
    [Stmt(718, 35, {"z_given_std"}, {}) EXCEPT !.op = "sample", !.fn = "sample",
        !.src = "z_given_std"],
    [Stmt(739, 36, {}, {"myfun"}) EXCEPT !.op = "def", !.tgt = "myfun", !.params = {"v1", "v2"}],
    Stmt(748, 37, {"myfun"}, {}),
    [Stmt(765, 38, {"cuqi", "np"}, {"w"}) EXCEPT !.op = "dist", !.fn = "Normal", !.tgt = "w",
        !.keys = {"mean", "std"}, !.params = {"d"}],
    Stmt(766, 38, {"w"}, {}),
    [Stmt(785, 39, {"w"}, {}) EXCEPT !.op = "sample", !.fn = "sample", !.src = "w", !.keys = {"d"}],
    [Stmt(802, 40, {"w"}, {"w_given_d"}) EXCEPT !.op = "cond", !.tgt = "w_given_d", !.src = "w",
        !.keys = {"d"}],
    Stmt(803, 40, {"w_given_d"}, {}),
    [Stmt(821, 41, {}, {"mean"}) EXCEPT !.op = "def", !.tgt = "mean", !.params = {"sigma", "gamma"}],
    [Stmt(822, 41, {"np"}, {"std"}) EXCEPT !.op = "def", !.tgt = "std",
        !.params = {"delta", "gamma"}, !.frees = {"np"}],
    [Stmt(824, 41, {"cuqi", "mean", "std"}, {"u"}) EXCEPT !.op = "dist", !.fn = "Normal",
        !.tgt = "u", !.args = {"mean", "std"}, !.npos = 2],
    Stmt(825, 41, {"u"}, {}),
    [Stmt(844, 42, {"u"}, {"u_given_all"}) EXCEPT !.op = "cond", !.tgt = "u_given_all",
        !.src = "u", !.keys = {"sigma", "delta", "gamma"}],
    Stmt(845, 42, {"u_given_all"}, {}),
    [Stmt(862, 43, {"u_given_all"}, {}) EXCEPT !.op = "sample", !.fn = "sample",
        !.src = "u_given_all"],
    Stmt(901, 44, {}, {"mu1"}),
    Stmt(902, 44, {}, {"std1"}),
    [Stmt(904, 44, {"np", "std1", "mu1"}, {"logpdf_func"}) EXCEPT !.op = "def",
        !.tgt = "logpdf_func", !.params = {"xx"}, !.frees = {"np", "std1", "mu1"}],
    [Stmt(921, 45, {"cuqi", "logpdf_func"}, {"x_user"}) EXCEPT !.op = "dist",
        !.fn = "UserDefinedDistribution", !.tgt = "x_user", !.keys = {"dim", "logpdf_func"},
        !.args = {"logpdf_func"}],
    Stmt(938, 46, {"x_user"}, {}),
    Stmt(939, 46, {"x_user"}, {}),
    Stmt(956, 47, {"plt", "grid", "x"}, {}),
    Stmt(957, 47, {"plt", "grid", "x_user"}, {}),
    Stmt(958, 47, {"plt"}, {}),
    [Stmt(975, 48, {"x_user"}, {}) EXCEPT !.op = "sample", !.fn = "sample", !.src = "x_user",
        !.guard = TRUE, !.catch = "e"],
    [Stmt(995, 49, {"np", "mu1", "std1", "x_user"}, {}) EXCEPT !.op = "setattr",
        !.fn = "sample_func", !.src = "x_user"],
    [Stmt(1004, 50, {"x_user"}, {}) EXCEPT !.op = "sample", !.fn = "sample", !.src = "x_user"],
    [Stmt(1021, 51, {"x"}, {"x_samples"}) EXCEPT !.op = "sample", !.fn = "sample",
        !.tgt = "x_samples", !.src = "x"],
    [Stmt(1030, 52, {"x_user"}, {"x_user_samples"}) EXCEPT !.op = "sample", !.fn = "sample",
        !.tgt = "x_user_samples", !.src = "x_user"],
    Stmt(1047, 53, {"x_samples"}, {}),
    Stmt(1048, 53, {"x_user_samples"}, {}),
    Stmt(1049, 53, {"plt"}, {})
    >>

\* src/unnamed/part_003: the code cells' statements in file order.
NbGibbs == <<
    [Stmt(64, 1, {}, {"np"}) EXCEPT !.op = "import"],
    [Stmt(65, 1, {}, {"plt"}) EXCEPT !.op = "import"],
    [Stmt(67, 1, {}, {"cuqi"}) EXCEPT !.op = "import"],
    [Stmt(68, 1, {}, {"Deconvolution1D"}) EXCEPT !.op = "import"],
    [Stmt(69, 1, {}, {"Gaussian", "Gamma", "JointDistribution", "GMRF", "LMRF"}) EXCEPT
        !.op = "import"],
    [Stmt(70, 1, {}, {"HybridGibbs", "LinearRTO", "Conjugate", "UGLA", "ConjugateApprox", "Direct"}) EXCEPT
        !.op = "import"],
    [Stmt(71, 1, {}, {"BayesianProblem"}) EXCEPT !.op = "import"],
    [Stmt(99, 2, {"Gamma"}, {"d"}) EXCEPT !.op = "dist", !.fn = "Gamma", !.tgt = "d", !.npos = 2],
    [Stmt(100, 2, {"Gaussian"}, {"x"}) EXCEPT !.op = "dist", !.fn = "Gaussian", !.tgt = "x",
        !.keys = {"cov"}, !.params = {"d"}, !.npos = 1],
    [Stmt(121, 3, {"JointDistribution", "x", "d"}, {"target"}) EXCEPT !.op = "joint",
        !.fn = "JointDistribution", !.tgt = "target", !.args = {"x", "d"}],
    Stmt(123, 3, {"target"}, {}),
    [Stmt(187, 4, {"Direct", "Conjugate"}, {"sampling_strategy"}) EXCEPT !.op = "strategy",
        !.tgt = "sampling_strategy", !.keys = {"x", "d"}],
    [Stmt(212, 5, {"HybridGibbs", "target", "sampling_strategy"}, {"sampler"}) EXCEPT
        !.op = "gibbs", !.fn = "HybridGibbs", !.tgt = "sampler", !.src = "target",
        !.src2 = "sampling_strategy"],
    [Stmt(215, 5, {"sampler"}, {}) EXCEPT !.op = "warmup", !.fn = "warmup", !.src = "sampler"],
    [Stmt(216, 5, {"sampler"}, {}) EXCEPT !.op = "sample", !.fn = "sample", !.src = "sampler"],
    [Stmt(219, 5, {"sampler"}, {"samples"}) EXCEPT !.op = "get_samples", !.fn = "get_samples",
        !.tgt = "samples", !.src = "sampler"],
    Stmt(236, 6, {"samples"}, {}),
    Stmt(237, 6, {"samples"}, {}),
    [Stmt(279, 7, {"Deconvolution1D"}, {"A", "y_data", "probinfo"}) EXCEPT !.op = "testproblem",
        !.fn = "Deconvolution1D", !.keys = {"phantom", "noise_std", "PSF_param"}, !.noise = 5],
    Stmt(282, 7, {"A"}, {"n"}),
    Stmt(285, 7, {"plt"}, {}),
    Stmt(286, 7, {"probinfo"}, {}),
    Stmt(287, 7, {"plt"}, {}),
    Stmt(289, 7, {"plt"}, {}),
    Stmt(290, 7, {"y_data"}, {}),
    Stmt(291, 7, {"plt"}, {}),
    Stmt(294, 7, {"probinfo"}, {}),
    [Stmt(326, 8, {"GMRF", "np", "n"}, {"x"}) EXCEPT !.op = "dist", !.fn = "GMRF", !.tgt = "x",
        !.args = {"n", "np"}, !.params = {"d"}, !.npos = 2],
    Stmt(328, 8, {"x"}, {}),
    [Stmt(375, 10, {"Gaussian", "A", "x"}, {"y"}) EXCEPT !.op = "dist", !.fn = "Gaussian",
        !.tgt = "y", !.keys = {"cov"}, !.args = {"A", "x"}, !.params = {"s"}, !.npos = 1],
    Stmt(377, 10, {"y"}, {}),
    [Stmt(401, 11, {"Gamma"}, {"d"}) EXCEPT !.op = "dist", !.fn = "Gamma", !.tgt = "d", !.npos = 2],
    [Stmt(402, 11, {"Gamma"}, {"s"}) EXCEPT !.op = "dist", !.fn = "Gamma", !.tgt = "s", !.npos = 2],
    Stmt(404, 11, {"d"}, {}),
    Stmt(405, 11, {"s"}, {}),
    Stmt(422, 12, {"np"}, {"grid"}),
    Stmt(423, 12, {"plt", "grid", "d"}, {}),
    Stmt(424, 12, {"plt"}, {}),
    Stmt(425, 12, {"plt"}, {}),
    [Stmt(453, 13, {"Gamma"}, {"d"}) EXCEPT !.op = "dist", !.fn = "Gamma", !.tgt = "d", !.npos = 2],
    [Stmt(454, 13, {"Gamma"}, {"s"}) EXCEPT !.op = "dist", !.fn = "Gamma", !.tgt = "s", !.npos = 2],
    [Stmt(455, 13, {"GMRF", "np", "n"}, {"x"}) EXCEPT !.op = "dist", !.fn = "GMRF", !.tgt = "x",
        !.args = {"n", "np"}, !.params = {"d"}, !.npos = 2],
    [Stmt(456, 13, {"Gaussian", "A", "x"}, {"y"}) EXCEPT !.op = "dist", !.fn = "Gaussian",
        !.tgt = "y", !.keys = {"cov"}, !.args = {"A", "x"}, !.params = {"s"}, !.npos = 1],
    [Stmt(489, 14, {"JointDistribution", "y", "x", "d", "s"}, {"joint"}) EXCEPT !.op = "joint",
        !.fn = "JointDistribution", !.tgt = "joint", !.args = {"y", "x", "d", "s"}],
    [Stmt(492, 14, {"joint", "y_data"}, {"posterior"}) EXCEPT !.op = "cond", !.tgt = "posterior",
        !.src = "joint", !.keys = {"y"}],
    Stmt(495, 14, {"posterior"}, {}),
    [Stmt(584, 16, {"LinearRTO", "Conjugate"}, {"sampling_strategy"}) EXCEPT !.op = "strategy",
        !.tgt = "sampling_strategy", !.keys = {"x", "d", "s"}],
    [Stmt(591, 16, {"HybridGibbs", "posterior", "sampling_strategy"}, {"sampler"}) EXCEPT
        !.op = "gibbs", !.fn = "HybridGibbs", !.tgt = "sampler", !.src = "posterior",
        !.src2 = "sampling_strategy"],
    [Stmt(594, 16, {"sampler"}, {}) EXCEPT !.op = "warmup", !.fn = "warmup", !.src = "sampler"],
    [Stmt(595, 16, {"sampler"}, {}) EXCEPT !.op = "sample", !.fn = "sample", !.src = "sampler"],
    [Stmt(598, 16, {"sampler"}, {"samples"}) EXCEPT !.op = "get_samples", !.fn = "get_samples",
        !.tgt = "samples", !.src = "sampler"],
    Stmt(627, 17, {"samples", "probinfo"}, {}),
    Stmt(650, 18, {"samples"}, {}),
    [Stmt(673, 19, {"samples"}, {}) EXCEPT !.exactStd = 5],
    [Stmt(707, 20, {"Deconvolution1D"}, {"A", "y_data", "probinfo"}) EXCEPT !.op = "testproblem",
        !.fn = "Deconvolution1D", !.keys = {"phantom"}],
    [Stmt(710, 20, {"Gamma"}, {"d"}) EXCEPT !.op = "dist", !.fn = "Gamma", !.tgt = "d", !.npos = 2],
    [Stmt(711, 20, {"Gamma"}, {"s"}) EXCEPT !.op = "dist", !.fn = "Gamma", !.tgt = "s", !.npos = 2],
    [Stmt(712, 20, {"GMRF", "np", "n"}, {"x"}) EXCEPT !.op = "dist", !.fn = "GMRF", !.tgt = "x",
        !.args = {"n", "np"}, !.params = {"d"}, !.npos = 2],
    [Stmt(713, 20, {"Gaussian", "A", "x"}, {"y"}) EXCEPT !.op = "dist", !.fn = "Gaussian",
        !.tgt = "y", !.keys = {"cov"}, !.args = {"A", "x"}, !.params = {"s"}, !.npos = 1],
    [Stmt(716, 20, {"JointDistribution", "y", "x", "d", "s"}, {"joint"}) EXCEPT !.op = "joint",
        !.fn = "JointDistribution", !.tgt = "joint", !.args = {"y", "x", "d", "s"}],
    [Stmt(719, 20, {"joint", "y_data"}, {"posterior"}) EXCEPT !.op = "cond", !.tgt = "posterior",
        !.src = "joint", !.keys = {"y"}],
    [Stmt(722, 20, {"LinearRTO", "Conjugate"}, {"sampling_strategy"}) EXCEPT !.op = "strategy",
        !.tgt = "sampling_strategy", !.keys = {"x", "d", "s"}],
    [Stmt(729, 20, {"HybridGibbs", "posterior", "sampling_strategy"}, {"sampler"}) EXCEPT
        !.op = "gibbs", !.fn = "HybridGibbs", !.tgt = "sampler", !.src = "posterior",
        !.src2 = "sampling_strategy"],
    [Stmt(732, 20, {"sampler"}, {}) EXCEPT !.op = "warmup", !.fn = "warmup", !.src = "sampler"],
    [Stmt(733, 20, {"sampler"}, {}) EXCEPT !.op = "sample", !.fn = "sample", !.src = "sampler"],
    [Stmt(736, 20, {"sampler"}, {"samples"}) EXCEPT !.op = "get_samples", !.fn = "get_samples",
        !.tgt = "samples", !.src = "sampler"],
    Stmt(739, 20, {"samples", "probinfo"}, {}),
    [Stmt(780, 21, {"LMRF", "np", "n"}, {"x"}) EXCEPT !.op = "dist", !.fn = "LMRF", !.tgt = "x",
        !.args = {"n", "np"}, !.params = {"d"}, !.npos = 2],
    [Stmt(783, 21, {"JointDistribution", "d", "s", "x", "y"}, {"joint_Ld"}) EXCEPT !.op = "joint",
        !.fn = "JointDistribution", !.tgt = "joint_Ld", !.args = {"d", "s", "x", "y"}],
    [Stmt(786, 21, {"joint_Ld", "y_data"}, {"posterior_Ld"}) EXCEPT !.op = "cond",
        !.tgt = "posterior_Ld", !.src = "joint_Ld", !.keys = {"y"}],
    Stmt(788, 21, {"posterior_Ld"}, {}),
    [Stmt(827, 22, {"UGLA", "ConjugateApprox", "Conjugate"}, {"sampling_strategy"}) EXCEPT
        !.op = "strategy", !.tgt = "sampling_strategy", !.keys = {"x", "d", "s"}],
    [Stmt(834, 22, {"HybridGibbs", "posterior_Ld", "sampling_strategy"}, {"sampler_Ld"}) EXCEPT
        !.op = "gibbs", !.fn = "HybridGibbs", !.tgt = "sampler_Ld", !.src = "posterior_Ld",
        !.src2 = "sampling_strategy"],
    [Stmt(837, 22, {"sampler_Ld"}, {}) EXCEPT !.op = "warmup", !.fn = "warmup",
        !.src = "sampler_Ld"],
    [Stmt(838, 22, {"sampler_Ld"}, {}) EXCEPT !.op = "sample", !.fn = "sample",
        !.src = "sampler_Ld"],
    [Stmt(841, 22, {"sampler_Ld"}, {"samples_Ld"}) EXCEPT !.op = "get_samples",
        !.fn = "get_samples", !.tgt = "samples_Ld", !.src = "sampler_Ld"],
    [Stmt(842, 22, {"samples_Ld"}, {"samples_Ld"}) EXCEPT !.op = "burnthin", !.tgt = "samples_Ld",
        !.src = "samples_Ld"],
    Stmt(869, 23, {"samples_Ld", "probinfo"}, {}),
    Stmt(883, 24, {"samples_Ld"}, {}),
    [Stmt(897, 25, {"samples_Ld"}, {}) EXCEPT !.exactStd = 10],
    Stmt(914, 26, {"samples_Ld"}, {}),
    [Stmt(940, 27, {"BayesianProblem", "y", "x", "d", "s", "y_data"}, {"BP"}) EXCEPT
        !.op = "bp_set_data", !.fn = "BayesianProblem", !.tgt = "BP", !.keys = {"y"},
        !.args = {"y", "x", "d", "s"}],
    [Stmt(943, 27, {"BP", "probinfo"}, {"samples_BP"}) EXCEPT !.uses = {"BP"}, !.exactStd = 10]
    >>

\* src/unnamed/part_004: the code cells' statements in file order.
NbMarkovRandomFields == <<
    [Stmt(46, 1, {}, {"GMRF"}) EXCEPT !.op = "import"],
    [Stmt(47, 1, {}, {"np"}) EXCEPT !.op = "import"],
    Stmt(57, 2, {}, {"d"}),
    Stmt(58, 2, {}, {"n"}),
    [Stmt(60, 2, {"GMRF", "np", "n", "d"}, {"x_GMRF"}) EXCEPT !.op = "dist", !.fn = "GMRF",
        !.tgt = "x_GMRF", !.args = {"n", "np", "d"}, !.npos = 2]
    >>

\* src/unnamed/part_004: the code cells' statements in file order.
NbEntropy == <<
    [Stmt(147, 4, {}, {"Gaussian"}) EXCEPT !.op = "import"],
    [Stmt(148, 4, {}, {"np"}) EXCEPT !.op = "import"],
    [Stmt(149, 4, {}, {"scipy"}) EXCEPT !.op = "import"],
    [Stmt(158, 5, {"Gaussian"}, {"x"}) EXCEPT !.op = "dist", !.fn = "Gaussian", !.tgt = "x",
        !.npos = 2],
    [Stmt(174, 6, {}, {"entropy_integrand"}) EXCEPT !.op = "def", !.tgt = "entropy_integrand",
        !.params = {"dist", "val"}],
    [Stmt(190, 7, {}, {"sp_integrate"}) EXCEPT !.op = "import"],
    Stmt(191, 7, {"sp_integrate", "entropy_integrand", "x", "np"}, {"x_entropy"}),
    Stmt(193, 7, {}, {}),
    Stmt(194, 7, {"x_entropy"}, {})
    >>

\* src/unnamed/part_005: the code cells' statements in file order.
NbIntroLong == <<
    [Stmt(74, 1, {}, {"Gaussian"}) EXCEPT !.op = "import"],
    [Stmt(75, 1, {}, {"BayesianProblem"}) EXCEPT !.op = "import"],
    [Stmt(76, 1, {}, {"LinearModel"}) EXCEPT !.op = "import"],
    [Stmt(77, 1, {}, {"np"}) EXCEPT !.op = "import"],
    [Stmt(78, 1, {}, {"plt"}) EXCEPT !.op = "import"],
    Stmt(94, 2, {"np"}, {"A_matrix"}),
    Stmt(110, 3, {"A_matrix"}, {}),
    Stmt(126, 4, {"LinearModel", "A_matrix"}, {"A"}),
    Stmt(142, 5, {"np"}, {"some_x"}),
    Stmt(143, 5, {"A", "some_x"}, {}),
    Stmt(199, 7, {"A"}, {}),
    Stmt(200, 7, {"A"}, {}),
    [Stmt(240, 8, {"Gaussian", "np"}, {"x"}) EXCEPT !.op = "dist", !.fn = "Gaussian", !.tgt = "x",
        !.args = {"np"}, !.npos = 2],
    [Stmt(253, 9, {}, {"plot2d"}) EXCEPT !.op = "def", !.tgt = "plot2d",
        !.params = {"val", "x1_min", "x1_max", "x2_min", "x2_max", "N2"}, !.frees = {"plt"}],
    [Stmt(267, 9, {}, {"plot_pdf_2D"}) EXCEPT !.op = "def", !.tgt = "plot_pdf_2D",
        !.params = {"distb", "x1_min", "x1_max", "x2_min", "x2_max", "N2"},
        !.frees = {"np", "plot2d"}],
    Stmt(293, 10, {"plot_pdf_2D", "x"}, {}),
    [Stmt(309, 11, {"x"}, {"x_samples"}) EXCEPT !.op = "sample", !.fn = "sample",
        !.tgt = "x_samples", !.src = "x"],
    Stmt(325, 12, {"x_samples"}, {}),
    [Stmt(368, 14, {"Gaussian"}, {"e"}) EXCEPT !.op = "dist", !.fn = "Gaussian", !.tgt = "e",
        !.npos = 2],
    Stmt(384, 15, {"e"}, {}),
    [Stmt(400, 16, {"e"}, {"samples"}) EXCEPT !.op = "sample", !.fn = "sample", !.tgt = "samples",
        !.src = "e"],
    Stmt(416, 17, {"samples"}, {}),
    [Stmt(440, 18, {}, {"plot_pdf_1D"}) EXCEPT !.op = "def", !.tgt = "plot_pdf_1D",
        !.params = {"distb", "min", "max"}, !.frees = {"np", "plt"}],
    Stmt(452, 19, {"plot_pdf_1D", "e"}, {}),
    [Stmt(501, 21, {"Gaussian", "A", "x"}, {"b"}) EXCEPT !.op = "dist", !.fn = "Gaussian",
        !.tgt = "b", !.args = {"A", "x"}, !.npos = 2],
    Stmt(517, 22, {"b"}, {}),
    [Stmt(534, 23, {"b"}, {}) EXCEPT !.op = "sample", !.fn = "sample", !.src = "b", !.guard = TRUE,
        !.catch = "e"],
    Stmt(553, 24, {"np"}, {"particular_x"}),
    [Stmt(569, 25, {"b", "particular_x"}, {"b_given_particular_x"}) EXCEPT !.op = "cond",
        !.tgt = "b_given_particular_x", !.src = "b", !.keys = {"x"}],
    Stmt(585, 26, {"plot_pdf_1D", "b_given_particular_x"}, {}),
    [Stmt(601, 27, {"b_given_particular_x"}, {"b_obs"}) EXCEPT !.op = "sample", !.fn = "sample",
        !.tgt = "b_obs", !.src = "b_given_particular_x"],
    Stmt(602, 27, {"b_obs"}, {}),
    [Stmt(664, 29, {"b", "b_obs"}, {"likelihood"}) EXCEPT !.op = "cond", !.tgt = "likelihood",
        !.src = "b", !.keys = {"b"}],
    Stmt(665, 29, {"likelihood"}, {}),
    [Stmt(681, 30, {"likelihood", "particular_x"}, {}) EXCEPT !.op = "pdf", !.fn = "pdf",
        !.src = "likelihood", !.keys = {"x"}, !.guard = TRUE, !.catch = "e"],
    [Stmt(700, 31, {"x", "particular_x"}, {}) EXCEPT !.op = "pdf", !.fn = "pdf", !.src = "x"],
    Stmt(716, 32, {"likelihood", "particular_x"}, {}),
    Stmt(732, 33, {"np"}, {"x1_lim"}),
    Stmt(733, 33, {"np"}, {"x2_lim"}),
    Stmt(734, 33, {"plot_pdf_2D", "likelihood", "x1_lim", "x2_lim"}, {}),
    Stmt(769, 34, {"plot_pdf_2D", "likelihood", "x1_lim", "x2_lim"}, {}),
    Stmt(775, 34, {"plt", "x1_lim", "b_obs"}, {}),
    Stmt(776, 34, {"plt", "x2_lim"}, {}),
    [Stmt(816, 35, {"BayesianProblem", "b", "x"}, {"BP"}) EXCEPT !.op = "bp",
        !.fn = "BayesianProblem", !.tgt = "BP", !.args = {"b", "x"}],
    Stmt(817, 35, {"BP"}, {}),
    [Stmt(833, 36, {"BP", "b_obs"}, {}) EXCEPT !.op = "set_data", !.fn = "set_data", !.src = "BP",
        !.keys = {"b"}],
    Stmt(834, 36, {"BP"}, {}),
    [Stmt(899, 38, {"plot_pdf_2D", "BP", "x1_lim", "x2_lim"}, {}) EXCEPT !.uses = {"BP"}]
    >>

\* src/unnamed/part_007: the code cells' statements in file order.
NbIntroShort == <<
    [Stmt(99, 1, {}, {"Gaussian"}) EXCEPT !.op = "import"],
    [Stmt(100, 1, {}, {"BayesianProblem"}) EXCEPT !.op = "import"],
    [Stmt(101, 1, {}, {"LinearModel"}) EXCEPT !.op = "import"],
    [Stmt(102, 1, {}, {"plot_1D_density", "plot_2D_density"}) EXCEPT !.op = "import"],
    [Stmt(103, 1, {}, {"np"}) EXCEPT !.op = "import"],
    [Stmt(104, 1, {}, {"plt"}) EXCEPT !.op = "import"],
    Stmt(127, 2, {"np"}, {"A_matrix"}),
    Stmt(143, 3, {"LinearModel", "A_matrix"}, {"A"}),
    Stmt(144, 3, {"A"}, {}),
    [Stmt(177, 4, {"Gaussian", "np"}, {"x"}) EXCEPT !.op = "dist", !.fn = "Gaussian", !.tgt = "x",
        !.args = {"np"}, !.npos = 2],
    Stmt(178, 4, {"x"}, {}),
    Stmt(195, 5, {"plot_2D_density", "x"}, {}),
    [Stmt(198, 5, {"x"}, {"x_samples"}) EXCEPT !.op = "sample", !.fn = "sample",
        !.tgt = "x_samples", !.src = "x"],
    Stmt(201, 5, {"x_samples", "plt"}, {}),
    Stmt(202, 5, {"plt"}, {}),
    Stmt(203, 5, {"plt"}, {}),
    [Stmt(222, 6, {"Gaussian"}, {"e"}) EXCEPT !.op = "dist", !.fn = "Gaussian", !.tgt = "e",
        !.npos = 2],
    Stmt(238, 7, {"plot_1D_density", "e"}, {}),
    [Stmt(267, 8, {"Gaussian", "A", "x"}, {"b"}) EXCEPT !.op = "dist", !.fn = "Gaussian",
        !.tgt = "b", !.args = {"A", "x"}, !.npos = 2],
    Stmt(268, 8, {"b"}, {}),
    Stmt(284, 9, {"np"}, {"particular_x"}),
    [Stmt(300, 10, {"b", "particular_x"}, {"b_given_particular_x"}) EXCEPT !.op = "cond",
        !.tgt = "b_given_particular_x", !.src = "b", !.keys = {"x"}],
    Stmt(301, 10, {"b_given_particular_x"}, {}),
    Stmt(317, 11, {"plot_1D_density", "b_given_particular_x"}, {}),
    [Stmt(333, 12, {"b_given_particular_x"}, {"b_obs"}) EXCEPT !.op = "sample", !.fn = "sample",
        !.tgt = "b_obs", !.src = "b_given_particular_x"],
    Stmt(334, 12, {"b_obs"}, {}),
    [Stmt(368, 13, {"b", "b_obs"}, {"likelihood"}) EXCEPT !.op = "cond", !.tgt = "likelihood",
        !.src = "b", !.keys = {"b"}],
    Stmt(369, 13, {"likelihood"}, {}),
    Stmt(392, 14, {"np"}, {"x1_lim"}),
    Stmt(393, 14, {"np"}, {"x2_lim"}),
    Stmt(394, 14, {"plot_2D_density", "likelihood", "x1_lim", "x2_lim"}, {}),
    Stmt(416, 15, {"plot_2D_density", "likelihood", "x1_lim", "x2_lim"}, {}),
    Stmt(422, 15, {"plt", "x1_lim", "b_obs"}, {}),
    Stmt(423, 15, {"plt", "x2_lim"}, {}),
    [Stmt(460, 16, {"BayesianProblem", "b", "x"}, {"BP"}) EXCEPT !.op = "bp",
        !.fn = "BayesianProblem", !.tgt = "BP", !.args = {"b", "x"}],
    Stmt(461, 16, {"BP"}, {}),
    [Stmt(477, 17, {"BP", "b_obs"}, {}) EXCEPT !.op = "set_data", !.fn = "set_data", !.src = "BP",
        !.keys = {"b"}],
    Stmt(478, 17, {"BP"}, {}),
    [Stmt(524, 18, {"BP"}, {"map_estimate"}) EXCEPT !.uses = {"BP"}],
    Stmt(525, 18, {"map_estimate"}, {}),
    [Stmt(550, 19, {"BP"}, {"samples"}) EXCEPT !.uses = {"BP"}],
    [Stmt(567, 20, {"plot_2D_density", "BP", "x1_lim", "x2_lim"}, {}) EXCEPT !.uses = {"BP"}],
    Stmt(570, 20, {"samples", "plt"}, {}),
    Stmt(571, 20, {"plt", "map_estimate"}, {}),
    Stmt(572, 20, {"plt", "x2_lim"}, {}),
    Stmt(573, 20, {"plt", "x1_lim"}, {})
    >>

\* src/chapter02/two_target_distributions.ipynb: the code cells' statements in file order.
NbTwoTargets == <<
    [Stmt(66, 1, {}, {"DistributionGallery", "Gaussian", "JointDistribution"}) EXCEPT
        !.op = "import"],
    [Stmt(67, 1, {}, {"Poisson1D"}) EXCEPT !.op = "import"],
    [Stmt(68, 1, {}, {"BayesianProblem"}) EXCEPT !.op = "import"],
    [Stmt(69, 1, {}, {"inspect"}) EXCEPT !.op = "import"],
    [Stmt(70, 1, {}, {"np"}) EXCEPT !.op = "import"],
    [Stmt(71, 1, {}, {"plt"}) EXCEPT !.op = "import"],
    [Stmt(72, 1, {}, {"MH", "CWMH"}) EXCEPT !.op = "import"],
    [Stmt(73, 1, {}, {"time"}) EXCEPT !.op = "import"],
    [Stmt(74, 1, {}, {"sps"}) EXCEPT !.op = "import"],
    [Stmt(89, 2, {}, {"plot2d"}) EXCEPT !.op = "def", !.tgt = "plot2d",
        !.params = {"val", "x1_min", "x1_max", "x2_min", "x2_max", "N2"}, !.frees = {"plt"}],
    [Stmt(103, 2, {}, {"plot_pdf_2D"}) EXCEPT !.op = "def", !.tgt = "plot_pdf_2D",
        !.params = {"distb", "x1_min", "x1_max", "x2_min", "x2_max", "N2"},
        !.frees = {"np", "plot2d"}],
    [Stmt(146, 3, {"DistributionGallery"}, {"target_donut"}) EXCEPT !.op = "dist",
        !.fn = "DistributionGallery", !.tgt = "target_donut", !.npos = 1],
    Stmt(148, 3, {"target_donut"}, {}),
    Stmt(166, 4, {"plot_pdf_2D", "target_donut"}, {}),
    Stmt(219, 5, {}, {"dim"}),
    Stmt(220, 5, {"np"}, {"L"}),
    Stmt(238, 6, {"np", "L"}, {"xs"}),
    Stmt(239, 6, {}, {"ws"}),
    Stmt(240, 6, {}, {"sigma_s"}),
    [Stmt(241, 6, {}, {"f"}) EXCEPT !.op = "def", !.tgt = "f", !.params = {"t"},
        !.frees = {"np", "dim", "ws", "sps", "xs", "sigma_s"}],
    Stmt(263, 7, {"np", "L", "dim"}, {"temp_grid"}),
    Stmt(264, 7, {"plt", "temp_grid", "f"}, {}),
    Stmt(282, 8, {"Poisson1D", "dim", "L", "np", "f"}, {"A", "_"}),
    Stmt(305, 9, {"A"}, {}),
    Stmt(323, 10, {"A"}, {}),
    Stmt(341, 11, {"A"}, {}),
    Stmt(342, 11, {"A"}, {}),
    Stmt(360, 12, {"inspect", "A"}, {}),
    Stmt(378, 13, {"A"}, {"underlying_geometry"}),
    Stmt(379, 13, {"underlying_geometry"}, {}),
    Stmt(401, 14, {"A"}, {}),
    Stmt(402, 14, {"A"}, {}),
    Stmt(424, 15, {"A"}, {}),
    Stmt(442, 16, {"A"}, {}),
    Stmt(443, 16, {"A"}, {}),
    Stmt(463, 17, {}, {"sigma_x"}),
    [Stmt(464, 17, {"Gaussian", "sigma_x", "A"}, {"x"}) EXCEPT !.op = "dist", !.fn = "Gaussian",
        !.tgt = "x", !.keys = {"geometry"}, !.args = {"sigma_x", "A"}, !.npos = 2],
    Stmt(482, 18, {"np"}, {}),
    [Stmt(483, 18, {"x"}, {"x_true"}) EXCEPT !.op = "sample", !.fn = "sample", !.tgt = "x_true",
        !.src = "x"],
    Stmt(530, 20, {"np"}, {"sigma_y"}),
    [Stmt(531, 20, {"Gaussian", "A", "x", "sigma_y"}, {"y"}) EXCEPT !.op = "dist",
        !.fn = "Gaussian", !.tgt = "y", !.keys = {"geometry"}, !.args = {"A", "x", "sigma_y"},
        !.npos = 2],
    [Stmt(549, 21, {"y", "x_true"}, {"y_obs"}) EXCEPT !.op = "sample", !.fn = "sample",
        !.tgt = "y_obs", !.src = "y", !.keys = {"x"}],
    Stmt(567, 22, {"y_obs"}, {}),
    Stmt(568, 22, {"A", "x_true"}, {}),
    Stmt(569, 22, {"x_true"}, {}),
    Stmt(570, 22, {"plt"}, {}),
    [Stmt(610, 23, {"BayesianProblem", "x", "y"}, {"BP_poisson"}) EXCEPT !.op = "bp",
        !.fn = "BayesianProblem", !.tgt = "BP_poisson", !.args = {"x", "y"}],
    [Stmt(611, 23, {"BP_poisson", "y_obs"}, {}) EXCEPT !.op = "set_data", !.fn = "set_data",
        !.src = "BP_poisson", !.keys = {"y"}],
    Stmt(703, 26, {"x_true"}, {}),
    Stmt(704, 26, {"plt"}, {}),
    Stmt(723, 27, {"x_true"}, {}),
    Stmt(724, 27, {"plt"}, {}),
    [Stmt(762, 28, {"JointDistribution", "y", "x"}, {"joint"}) EXCEPT !.op = "joint",
        !.fn = "JointDistribution", !.tgt = "joint", !.args = {"y", "x"}],
    Stmt(780, 29, {"joint"}, {}),
    [Stmt(798, 30, {"joint", "y_obs"}, {"target_poisson"}) EXCEPT !.op = "cond",
        !.tgt = "target_poisson", !.src = "joint", !.keys = {"y"}],
    Stmt(816, 31, {"target_poisson"}, {})
    >>

\* src/chapter03/basics_bayesian_inverse_problems.ipynb: the code cells' statements in file order.
NbBayesianInverseProblems == <<
    [Stmt(74, 1, {}, {"np"}) EXCEPT !.op = "import"],
    [Stmt(75, 1, {}, {"plt"}) EXCEPT !.op = "import"],
    [Stmt(77, 1, {}, {"cuqi"}) EXCEPT !.op = "import"],
    [Stmt(78, 1, {}, {"Deconvolution1D", "Deconvolution2D"}) EXCEPT !.op = "import"],
    [Stmt(79, 1, {}, {"JointDistribution", "Gaussian", "CMRF", "LMRF", "GMRF"}) EXCEPT
        !.op = "import"],
    [Stmt(80, 1, {}, {"LinearRTO", "PCN", "CWMH", "ULA", "MALA", "NUTS"}) EXCEPT !.op = "import"],
    [Stmt(81, 1, {}, {"BayesianProblem"}) EXCEPT !.op = "import"],
    [Stmt(155, 2, {"Deconvolution1D"}, {"A", "y_data", "probInfo"}) EXCEPT !.op = "testproblem",
        !.fn = "Deconvolution1D", !.keys = {"phantom"}],
    Stmt(158, 2, {"A"}, {"n"}),
    Stmt(161, 2, {"probInfo"}, {"x_exact"}),
    Stmt(183, 3, {"plt"}, {}),
    Stmt(183, 3, {"x_exact"}, {}),
    Stmt(183, 3, {"plt"}, {}),
    Stmt(184, 3, {"plt"}, {}),
    Stmt(184, 3, {"y_data"}, {}),
    Stmt(184, 3, {"plt"}, {}),
    Stmt(187, 3, {"probInfo"}, {}),
    Stmt(219, 4, {}, {"d"}),
    [Stmt(222, 4, {"GMRF", "np", "n", "d"}, {"x"}) EXCEPT !.op = "dist", !.fn = "GMRF",
        !.tgt = "x", !.args = {"n", "np", "d"}, !.npos = 2],
    Stmt(264, 5, {}, {"s_y"}),
    [Stmt(267, 5, {"Gaussian", "A", "x", "s_y"}, {"y"}) EXCEPT !.op = "dist", !.fn = "Gaussian",
        !.tgt = "y", !.args = {"A", "x", "s_y"}, !.npos = 2],
    [Stmt(331, 7, {"GMRF", "np", "n"}, {"x"}) EXCEPT !.op = "dist", !.fn = "GMRF", !.tgt = "x",
        !.args = {"n", "np"}, !.npos = 2],
    [Stmt(332, 7, {"Gaussian", "A", "x", "s_y"}, {"y"}) EXCEPT !.op = "dist", !.fn = "Gaussian",
        !.tgt = "y", !.args = {"A", "x", "s_y"}, !.npos = 2],
    [Stmt(361, 8, {"BayesianProblem", "x", "y"}, {"BP"}) EXCEPT !.op = "bp",
        !.fn = "BayesianProblem", !.tgt = "BP", !.args = {"x", "y"}],
    [Stmt(362, 8, {"BP", "y_data"}, {}) EXCEPT !.op = "set_data", !.fn = "set_data", !.src = "BP",
        !.keys = {"y"}],
    [Stmt(363, 8, {"BP", "x_exact"}, {"samples"}) EXCEPT !.uses = {"BP"}],
    [Stmt(406, 9, {"JointDistribution", "y", "x"}, {"joint"}) EXCEPT !.op = "joint",
        !.fn = "JointDistribution", !.tgt = "joint", !.args = {"y", "x"}],
    Stmt(425, 10, {"joint"}, {}),
    [Stmt(465, 11, {"joint", "y_data"}, {"posterior"}) EXCEPT !.op = "cond", !.tgt = "posterior",
        !.src = "joint", !.keys = {"y"}],
    Stmt(484, 12, {"posterior"}, {}),
    [Stmt(537, 14, {"LinearRTO", "posterior"}, {"sampler"}) EXCEPT !.op = "sampler",
        !.fn = "LinearRTO", !.tgt = "sampler", !.src = "posterior"],
    [Stmt(560, 15, {"sampler"}, {}) EXCEPT !.op = "sample", !.fn = "sample", !.src = "sampler"],
    [Stmt(578, 16, {"sampler"}, {"samples"}) EXCEPT !.op = "get_samples", !.fn = "get_samples",
        !.tgt = "samples", !.src = "sampler"],
    Stmt(599, 17, {"samples"}, {}),
    [Stmt(620, 18, {"samples"}, {"samples_final"}) EXCEPT !.op = "burnthin", !.fn = "burnthin",
        !.tgt = "samples_final", !.src = "samples"],
    Stmt(641, 19, {"samples_final", "probInfo"}, {}),
    [Stmt(739, 21, {"Deconvolution1D"}, {"A", "y_data", "probInfo"}) EXCEPT !.op = "testproblem",
        !.fn = "Deconvolution1D", !.keys = {"phantom"}],
    [Stmt(742, 21, {"GMRF", "np", "A"}, {"x"}) EXCEPT !.op = "dist", !.fn = "GMRF", !.tgt = "x",
        !.args = {"np", "A"}, !.npos = 2],
    [Stmt(743, 21, {"Gaussian", "A", "x"}, {"y"}) EXCEPT !.op = "dist", !.fn = "Gaussian",
        !.tgt = "y", !.args = {"A", "x"}, !.npos = 2],
    [Stmt(746, 21, {"BayesianProblem", "y", "x", "y_data"}, {"BP"}) EXCEPT !.op = "bp_set_data",
        !.fn = "BayesianProblem", !.tgt = "BP", !.keys = {"y"}, !.args = {"y", "x"}],
    [Stmt(749, 21, {"BP"}, {"samples"}) EXCEPT !.uses = {"BP"}],
    Stmt(752, 21, {"samples", "probInfo"}, {}),
    [Stmt(793, 22, {"Deconvolution1D"}, {"A", "y_data", "probInfo"}) EXCEPT !.op = "testproblem",
        !.fn = "Deconvolution1D", !.keys = {"phantom"}],
    [Stmt(796, 22, {"GMRF", "np", "A"}, {"x"}) EXCEPT !.op = "dist", !.fn = "GMRF", !.tgt = "x",
        !.args = {"np", "A"}, !.npos = 2],
    [Stmt(797, 22, {"Gaussian", "A", "x"}, {"y"}) EXCEPT !.op = "dist", !.fn = "Gaussian",
        !.tgt = "y", !.keys = {"mean", "cov"}, !.args = {"A", "x"}],
    [Stmt(800, 22, {"BayesianProblem", "y", "x", "y_data"}, {"BP"}) EXCEPT !.op = "bp_set_data",
        !.fn = "BayesianProblem", !.tgt = "BP", !.keys = {"y"}, !.args = {"y", "x"}],
    [Stmt(810, 23, {"BP"}, {"x_map"}) EXCEPT !.uses = {"BP"}],
    Stmt(838, 24, {"x_map"}, {}),
    Stmt(839, 24, {"plt"}, {}),
    Stmt(840, 24, {"plt"}, {}),
    Stmt(842, 24, {"probInfo"}, {}),
    Stmt(843, 24, {"plt"}, {}),
    Stmt(844, 24, {"plt"}, {})
    >>

\* src/chapter05/geometries_in_cuqipy.ipynb: the code cells' statements in file order.
NbGeometries == <<
    [Stmt(35, 1, {}, {"Gaussian"}) EXCEPT !.op = "import"],
    [Stmt(36, 1, {}, {"Image2D", "Discrete", "StepExpansion", "MappedGeometry"}) EXCEPT
        !.op = "import"],
    [Stmt(37, 1, {}, {"CUQIarray"}) EXCEPT !.op = "import"],
    [Stmt(38, 1, {}, {"np"}) EXCEPT !.op = "import"],
    Stmt(47, 2, {"np"}, {"mu"}),
    Stmt(48, 2, {"np"}, {"sigma"}),
    [Stmt(49, 2, {"Gaussian", "mu", "sigma"}, {"y"}) EXCEPT !.op = "dist", !.fn = "Gaussian",
        !.tgt = "y", !.keys = {"mean", "cov"}, !.args = {"mu", "sigma"}],
    [Stmt(50, 2, {"y"}, {"y_samples"}) EXCEPT !.op = "sample", !.fn = "sample",
        !.tgt = "y_samples", !.src = "y"],
    Stmt(66, 3, {"y"}, {}),
    Stmt(67, 3, {"y_samples"}, {}),
    Stmt(83, 4, {"y_samples"}, {}),
    Stmt(99, 5, {"Image2D"}, {"geom_image"}),
    Stmt(100, 5, {"geom_image"}, {}),
    Stmt(116, 6, {"geom_image"}, {}),
    Stmt(132, 7, {"geom_image"}, {}),
    [Stmt(148, 8, {"geom_image", "y"}, {}) EXCEPT !.op = "setattr", !.fn = "geometry", !.src = "y"],
    Stmt(164, 9, {"y"}, {}),
    [Stmt(181, 10, {"y"}, {"y_samples"}) EXCEPT !.op = "sample", !.fn = "sample",
        !.tgt = "y_samples", !.src = "y"],
    Stmt(197, 11, {"y_samples"}, {}),
    Stmt(213, 12, {"y_samples"}, {}),
    Stmt(229, 13, {"Discrete"}, {"geom_discrete"}),
    Stmt(230, 13, {"geom_discrete"}, {}),
    [Stmt(246, 14, {"geom_discrete", "y"}, {}) EXCEPT !.op = "setattr", !.fn = "geometry",
        !.src = "y"],
    [Stmt(255, 15, {"y"}, {"y_samples"}) EXCEPT !.op = "sample", !.fn = "sample",
        !.tgt = "y_samples", !.src = "y"],
    Stmt(271, 16, {"y_samples"}, {}),
    Stmt(287, 17, {"y_samples", "mu"}, {}),
    Stmt(303, 18, {"y_samples"}, {}),
    Stmt(325, 19, {"np"}, {"grid"}),
    Stmt(341, 20, {"StepExpansion", "grid"}, {"geom_step_expantion"}),
    [Stmt(342, 20, {"geom_step_expantion", "y"}, {}) EXCEPT !.op = "setattr", !.fn = "geometry",
        !.src = "y"],
    Stmt(343, 20, {"y"}, {}),
    [Stmt(359, 21, {"y"}, {"y_step_samples"}) EXCEPT !.op = "sample", !.fn = "sample",
        !.tgt = "y_step_samples", !.src = "y"],
    Stmt(360, 21, {"y_step_samples"}, {}),
    Stmt(389, 22, {"MappedGeometry", "geom_step_expantion", "np"}, {"geom_step_expantion_mapped"}),
    [Stmt(405, 23, {"geom_step_expantion_mapped", "y"}, {}) EXCEPT !.op = "setattr",
        !.fn = "geometry", !.src = "y"],
    [Stmt(406, 23, {"y"}, {"y_mapped_step_samples"}) EXCEPT !.op = "sample", !.fn = "sample",
        !.tgt = "y_mapped_step_samples", !.src = "y"],
    Stmt(407, 23, {"y_mapped_step_samples"}, {}),
    Stmt(431, 24, {"CUQIarray"}, {"q"}),
    Stmt(447, 25, {"q"}, {}),
    Stmt(463, 26, {"q"}, {}),
    [Stmt(479, 27, {"geom_image", "q"}, {}) EXCEPT !.op = "setattr", !.fn = "geometry", !.src = "q"],
    Stmt(480, 27, {"q"}, {}),
    [Stmt(496, 28, {"geom_discrete", "q"}, {}) EXCEPT !.op = "setattr", !.fn = "geometry",
        !.src = "q"],
    Stmt(497, 28, {"q"}, {})
    >>

Books == {"distributions", "gibbs", "markov_random_fields", "entropy", "intro_long",
          "intro_short", "two_targets", "bayesian_inverse_problems", "geometries"}

Notebook(book) ==
    CASE book = "distributions" -> NbDistributions
      [] book = "gibbs" -> NbGibbs
      [] book = "markov_random_fields" -> NbMarkovRandomFields
      [] book = "entropy" -> NbEntropy
      [] book = "intro_long" -> NbIntroLong
      [] book = "intro_short" -> NbIntroShort
      [] book = "two_targets" -> NbTwoTargets
      [] book = "bayesian_inverse_problems" -> NbBayesianInverseProblems
      [] book = "geometries" -> NbGeometries

\* name = value at kernel level: the names become bound to val.
BindNone(env, names, val) == env
Bind(env, names, val) ==
    [v \in DOMAIN env \cup names |-> IF v \in names THEN val ELSE env[v]]

\* del name
Unbind(env, name) == [v \in DOMAIN env \ {name} |-> env[v]]

\* The names a statement needs bound: the ones it reads and, through the
\* functions it reads, the global names their bodies use.
RECURSIVE Needed(_, _)
Needed(env, names) ==
    LET more == names \cup UNION {env[v].frees : v \in names \cap DOMAIN env}
    IN  IF more = names THEN names ELSE Needed(env, more)

\* A statement inside try: ... except Exception ...
GuardedNever(s) == FALSE
Guarded(s) == s.guard

\* The positional parameters of a distribution class that become conditioning
\* variables when a call leaves them out (only Normal is called that way).
CtorParams(fn) == IF fn = "Normal" THEN <<"mean", "std">> ELSE << >>

Missing(s) ==
    {CtorParams(s.fn)[i] : i \in (s.npos + 1)..Len(CtorParams(s.fn))} \ s.keys

\* The conditioning variables of a distribution built by statement s: the
\* parameters it leaves out, the parameters of the callables it is given and
\* the distributions its arguments depend on.
DistCond(env, s) ==
    IF s.fn = "UserDefinedDistribution" THEN {}
    ELSE s.params \cup Missing(s)
         \cup {env[a].name : a \in {v \in s.args \cap DOMAIN env : env[v].kind = "dist"}}
         \cup UNION {env[a].params : a \in {v \in s.args \cap DOMAIN env : env[v].kind = "func"}}

\* dist(k1=..., k2=...): the keywords resolve conditioning variables; giving
\* the distribution's own variable turns it into a likelihood.
ConditionNothing(val, keys) == val
Condition(val, keys) ==
    IF keys = {} THEN val
    ELSE IF val.name \in keys
         THEN [val EXCEPT !.kind = "likelihood", !.cond = @ \ keys]
         ELSE [val EXCEPT !.cond = @ \ keys]

\* joint(y=y_data): the variables given as data leave the joint's variables.
ConditionJointKeep(val, keys) == val
ConditionJoint(val, keys) == [val EXCEPT !.vars = @ \ keys]

\* BP.set_data(...)
SetDataIgnored(val) == val
SetData(val) == [val EXCEPT !.data = TRUE]

\* samples.burnthin(Nb): the first Nb samples are dropped.
Burnthin(val) == [val EXCEPT !.warm = FALSE]

\* sampler.get_samples(): all stored samples, warm-up included.
GetSamples(smp, line) == [Val("samples", line) EXCEPT !.warm = smp.warm]

\* Does the library raise in statement s?  sample() raises on a distribution
\* with unresolved conditioning variables or without a sampling method, and
\* on a likelihood; pdf() raises on a likelihood.
Raises(env, s) ==
    CASE s.op = "sample" ->
            /\ env[s.src].kind \in {"dist", "likelihood"}
            /\ LET d == Condition(env[s.src], s.keys)
               IN  d.cond # {} \/ ~d.avail \/ d.kind = "likelihood"
      [] s.op = "pdf" -> env[s.src].kind = "likelihood"
      [] OTHER -> FALSE

\* The value statement s binds to its target.
Value(env, s) ==
    CASE s.op = "def" ->
            [Val("func", s.line) EXCEPT !.params = s.params, !.frees = s.frees]
      [] s.op = "dist" ->
            [Val("dist", s.line) EXCEPT
                !.name = s.tgt, !.cond = DistCond(env, s),
                !.avail = (s.fn # "UserDefinedDistribution" \/ "sample_func" \in s.keys)]
      [] s.op = "cond" ->
            IF env[s.src].kind = "joint"
            THEN [ConditionJoint(env[s.src], s.keys) EXCEPT !.line = s.line]
            ELSE [Condition(env[s.src], s.keys) EXCEPT !.line = s.line]
      [] s.op = "sample" -> Val("samples", s.line)
      [] s.op = "joint" ->
            [Val("joint", s.line) EXCEPT !.vars = {env[a].name : a \in s.args}]
      [] s.op = "strategy" -> [Val("strategy", s.line) EXCEPT !.vars = s.keys]
      [] s.op = "gibbs" -> [Val("sampler", s.line) EXCEPT !.vars = env[s.src].vars]
      [] s.op = "sampler" -> Val("sampler", s.line)
      [] s.op = "get_samples" -> GetSamples(env[s.src], s.line)
      [] s.op = "burnthin" -> [Burnthin(env[s.src]) EXCEPT !.line = s.line]
      [] s.op = "bp" -> Val("bp", s.line)
      [] s.op = "bp_set_data" -> SetData(Val("bp", s.line))
      [] OTHER -> Val("obj", s.line)

\* The noise standard deviation (in thousandths) of a Deconvolution1D test
\* problem: the noise_std argument, 0.01 when the call leaves it out.
DefaultNoiseStd == 10
NoiseStdDefaultOnly(s) == DefaultNoiseStd
NoiseStdOf(s) == IF "noise_std" \in s.keys THEN s.noise ELSE DefaultNoiseStd

\* 1/std**2 for a std given in thousandths.
InvSquare(std) == (1000 * 1000) \div (std * std)

\* The kernel's variables after statement s has run without an exception.
Effect(env, s) ==
    CASE s.op = "testproblem" ->
            Bind(env, s.binds, [Val("obj", s.line) EXCEPT !.noise = NoiseStdOf(s)])
      [] s.op = "setattr" ->
            IF s.fn = "sample_func"
            THEN [env EXCEPT ![s.src].avail = TRUE]
            ELSE env
      [] s.op = "warmup" -> [env EXCEPT ![s.src].warm = TRUE]
      [] s.op = "set_data" -> [env EXCEPT ![s.src] = SetData(@)]
      [] OTHER ->
            LET others == Bind(env, s.binds \ {s.tgt}, Val("obj", s.line))
            IN  IF s.tgt = "" THEN others
                ELSE Bind(others, {s.tgt}, Value(env, s))

\* A kernel is started for one notebook; nothing is bound yet.
NbOpen(book) ==
    /\ kernel.status = "idle"
    /\ kernel' = [status |-> "running", book |-> book, pc |-> 1,
                  env |-> [v \in {} |-> Val("obj", 0)], err |-> "",
                  raised |-> {}, printed |-> {}, lost |-> {}, unbound |-> {},
                  gibbs |-> {}, bpUses |-> {}, analysed |-> {}, unguarded |-> {},
                  exacts |-> {}]

\* The next statement of the notebook runs.  A name that is not bound raises
\* NameError, the library may raise; inside try the handler binds the
\* exception to the name after "as", prints it and deletes that name again;
\* outside try the exception stops the run.
RunStatement ==
    /\ kernel.status = "running"
    /\ LET s == Notebook(kernel.book)[kernel.pc]
           env == kernel.env
           missing == Needed(env, s.reads) \ DOMAIN env
           nameErr == missing # {}
           libErr == ~nameErr /\ Raises(env, s)
           exc == nameErr \/ libErr
           after == IF exc THEN (IF s.catch = "" THEN env ELSE Unbind(env, s.catch))
                    ELSE Effect(env, s)
           changed == {v \in DOMAIN env : v \notin DOMAIN after \/ after[v] # env[v]}
           hist == [kernel EXCEPT
                     !.raised = IF libErr THEN @ \cup {s.line} ELSE @,
                     !.unbound = @ \cup {<<s.line, v>> : v \in missing},
                     !.gibbs = IF s.op = "gibbs" /\ ~nameErr
                               THEN @ \cup {[line |-> s.line, vars |-> env[s.src].vars,
                                             keys |-> env[s.src2].vars]}
                               ELSE @,
                     !.bpUses = @ \cup {[line |-> s.line, var |-> v, data |-> env[v].data] :
                                           v \in {u \in s.uses \cap DOMAIN env : env[u].kind = "bp"}},
                     !.analysed = IF s.op = "burnthin" THEN @
                                  ELSE @ \cup {[line |-> s.line, var |-> v, warm |-> env[v].warm] :
                                           v \in {u \in s.reads \cap DOMAIN env : env[u].kind = "samples"}},
                     !.unguarded = IF s.op = "sample" /\ ~nameErr /\ ~Guarded(s)
                                      /\ env[s.src].kind \in {"dist", "likelihood"}
                                   THEN LET d == Condition(env[s.src], s.keys)
                                        IN  @ \cup {[line |-> s.line, cond |-> d.cond,
                                                     avail |-> d.avail, kind |-> d.kind]}
                                   ELSE @,
                     !.exacts = IF s.exactStd # 0 /\ "y_data" \in DOMAIN env
                                THEN @ \cup {[line |-> s.line, exact |-> InvSquare(s.exactStd),
                                              noise |-> env["y_data"].noise]}
                                ELSE @]
       IN  IF exc /\ ~Guarded(s)
           THEN kernel' = [hist EXCEPT !.status = "error",
                                       !.err = IF nameErr THEN "NameError" ELSE "LibraryError"]
           ELSE kernel' = [hist EXCEPT
                     !.env = after,
                     !.printed = IF exc THEN @ \cup {s.line} ELSE @,
                     !.lost = IF s.guard THEN @ \cup {<<s.line, v>> : v \in changed} ELSE @,
                     !.pc = @ + 1,
                     !.status = IF kernel.pc = Len(Notebook(kernel.book))
                                THEN "done" ELSE "running"]

\* The kernel is shut down after the run.
NbShutdown ==
    /\ kernel.status \in {"done", "error"}
    /\ kernel' = [status |-> "idle"]

NbNext ==
    \/ \E book \in Books :
          NbOpen(book) /\ UNCHANGED <<wfVars, bookVars, plotVars, entVars, chainVars, sourceVars>>
    \/ RunStatement /\ UNCHANGED <<wfVars, bookVars, plotVars, entVars, chainVars, sourceVars>>
    \/ NbShutdown /\ UNCHANGED <<wfVars, bookVars, plotVars, entVars, chainVars, sourceVars>>

SpecNotebook == Init /\ [][NbNext]_vars

(***************************************************************************)
(* Claims about the notebooks' cells (checked under SpecNotebook).         *)
(***************************************************************************)

\* C14: every library exception a cell triggers (sampling a conditional
\* distribution, sampling a user-defined distribution without sample_func,
\* pdf of a likelihood) is caught in the same cell and its message printed;
\* no library exception stops the run, which goes on past the cell.
C14_ExceptionsCaughtInCell ==
    kernel.status # "idle" =>
        /\ kernel.err # "LibraryError"
        /\ kernel.raised \subseteq kernel.printed
        /\ \A l \in kernel.raised :
              \E i \in 1..(kernel.pc - 1) :
                 Notebook(kernel.book)[i].line = l /\ Notebook(kernel.book)[i].guard
        /\ (kernel.status = "done" /\ kernel.book = "distributions")
              => kernel.raised = {663, 975}
        /\ (kernel.status = "done" /\ kernel.book = "intro_long")
              => kernel.raised = {534, 681}

\* C14 witness: the long intro notebook has run to its end after the library
\* raised in both of its try cells.
C14_Witness ==
    /\ kernel.status = "done"
    /\ kernel.book = "intro_long"
    /\ kernel.printed = {534, 681}

\* C15 (as stated): a cell that catches a library exception leaves every
\* variable bound before it bound to the same value; in the long intro
\* notebook e is still bound after the try b.sample(10) cell.
C15_CatchCellsKeepBindings ==
    kernel.status # "idle" =>
        /\ kernel.lost = {}
        /\ (kernel.book = "intro_long" /\ 534 \in kernel.printed)
              => "e" \in DOMAIN kernel.env

\* C16: for every HybridGibbs(target, sampling_strategy) of the Gibbs
\* notebook the strategy's keys are exactly the target's variables not fixed
\* by data: {x, d} for JointDistribution(x, d), {x, d, s} for the posteriors.
C16_StrategyKeysAreTargetVariables ==
    kernel.status # "idle" =>
        /\ \A g \in kernel.gibbs :
              /\ g.keys = g.vars
              /\ g.vars = IF g.line = 212 THEN {"x", "d"} ELSE {"x", "d", "s"}
        /\ (kernel.status = "done" /\ kernel.book = "gibbs")
              => {g.line : g \in kernel.gibbs} = {212, 591, 729, 834}

\* C16 witness: the Gibbs notebook has constructed its four HybridGibbs
\* samplers.
C16_Witness ==
    /\ kernel.status # "idle"
    /\ kernel.book = "gibbs"
    /\ Cardinality(kernel.gibbs) = 4

\* C17: run top to bottom, no statement of any notebook reads a name that no
\* earlier statement of the same notebook bound; x_map is never bound in the
\* two-targets notebook.
C17_ReadsAreBoundEarlier ==
    kernel.status # "idle" =>
        /\ kernel.err # "NameError"
        /\ kernel.unbound = {}
        /\ kernel.book = "two_targets" => "x_map" \notin DOMAIN kernel.env

\* C17 witness: the Gibbs notebook has run to its end, its section 3 cell
\* having read n bound by an earlier cell.
C17_Witness ==
    /\ kernel.status = "done"
    /\ kernel.book = "gibbs"
    /\ kernel.env["n"].line = 282
    /\ kernel.env["samples"].line = 736

\* C18: every MAP, UQ, sample_posterior call and every read of posterior on a
\* BayesianProblem happens after set_data on that object.
C18_SetDataBeforeUse ==
    kernel.status # "idle" => \A u \in kernel.bpUses : u.data

\* C18 witness: the short intro notebook has used its problem for MAP,
\* sample_posterior and posterior.
C18_Witness ==
    /\ kernel.status = "done"
    /\ kernel.book = "intro_short"
    /\ {u.line : u \in kernel.bpUses} = {524, 550, 567}

\* C19 (as stated): samples retrieved after warmup are plotted or analysed
\* only once the warm-up samples have been removed.
C19_WarmupRemovedBeforeAnalysis ==
    kernel.status # "idle" => \A a \in kernel.analysed : ~a.warm

\* C20: every sample() outside try is on a distribution with no unresolved
\* conditioning variable and with a sampling method.
C20_UnguardedSamplesAreSafe ==
    kernel.status # "idle" =>
        \A u \in kernel.unguarded :
            u.cond = {} /\ u.avail /\ u.kind = "dist"

\* C20 witness: the distributions notebook has sampled z(std=2),
\* u_given_all and, after assigning sample_func, x_user outside try.
C20_Witness ==
    /\ kernel.status = "done"
    /\ kernel.book = "distributions"
    /\ {683, 862, 1004} \subseteq {u.line : u \in kernel.unguarded}

\* C23: in the Gibbs notebook every exact noise precision given for s equals
\* 1/noise_std^2 of the test problem that produced the data bound to y_data
\* when the statement runs: 1/0.005^2 = 40000 at line 673, and 1/0.01^2 =
\* 10000 at lines 897 and 943, after the reload with the default noise level.
C23_ExactPrecisionMatchesNoise ==
    (kernel.status # "idle" /\ kernel.book = "gibbs") =>
        /\ \A x \in kernel.exacts :
              /\ x.noise > 0
              /\ x.exact * x.noise * x.noise = 1000 * 1000
              /\ x.exact = IF x.line = 673 THEN 40000 ELSE 10000
        /\ kernel.status = "done" => {x.line : x \in kernel.exacts} = {673, 897, 943}

\* C23 witness: the Gibbs notebook has run to its end, having passed an exact
\* precision under both noise levels.
C23_Witness ==
    /\ kernel.status = "done"
    /\ kernel.book = "gibbs"
    /\ {x.noise : x \in kernel.exacts} = {5, 10}
    /\ kernel.env["y_data"].line = 707

(***************************************************************************)
(* The sampling cells of the Bayesian-inverse-problems notebook:           *)
(* sampler.sample(500), samples = sampler.get_samples() and                *)
(* samples_final = samples.burnthin(Nb=100).  A sample is identified by    *)
(* the number of the sampler step that drew it.                            *)
(***************************************************************************)

\* sampler.sample(500)
SampleNs == 500

\* samples.burnthin(Nb=100); the thinning step is left at its default.
BurnNb == 100
DefaultNt == 1

\* sampler.get_samples(): a Samples object holding the stored samples.
SamplesOf(store) == store

\* samples.burnthin(Nb, Nt): a new Samples object without the first Nb
\* samples, keeping every Nt-th of the rest; the receiver is not changed.
BurnthinSamplesDropLast(xs, Nb, Nt) == SubSeq(xs, 1, Len(xs) - Nb)
BurnthinSamples(xs, Nb, Nt) ==
    [i \in 1..((Len(xs) - Nb + Nt - 1) \div Nt) |-> xs[Nb + 1 + (i - 1) * Nt]]

\* The cell sampler = LinearRTO(posterior): a sampler with no stored sample.
ChainLinearRTO ==
    /\ chain.pc = "idle"
    /\ chain' = [pc |-> "sampler", store |-> << >>, samples |-> << >>,
                 samples_final |-> << >>]

\* The cell sampler.sample(500) draws its samples one step at a time, each
\* appended to the sampler's store.
ChainSampleStep ==
    /\ chain.pc \in {"sampler", "sampling"}
    /\ Len(chain.store) < SampleNs
    /\ chain' = [chain EXCEPT
                    !.store = Append(@, Len(@) + 1),
                    !.pc = IF Len(chain.store) + 1 = SampleNs
                           THEN "sampled" ELSE "sampling"]

\* The cell samples = sampler.get_samples().
ChainGetSamples ==
    /\ chain.pc = "sampled"
    /\ chain' = [chain EXCEPT !.samples = SamplesOf(chain.store), !.pc = "got"]

\* The cell samples_final = samples.burnthin(Nb=100).
ChainBurnthin ==
    /\ chain.pc = "got"
    /\ chain' = [chain EXCEPT
                    !.samples_final = BurnthinSamples(chain.samples, BurnNb, DefaultNt),
                    !.pc = "final"]

ChainNext ==
    \/ ChainLinearRTO /\ UNCHANGED <<wfVars, bookVars, plotVars, entVars, nbVars, sourceVars>>
    \/ ChainSampleStep /\ UNCHANGED <<wfVars, bookVars, plotVars, entVars, nbVars, sourceVars>>
    \/ ChainGetSamples /\ UNCHANGED <<wfVars, bookVars, plotVars, entVars, nbVars, sourceVars>>
    \/ ChainBurnthin /\ UNCHANGED <<wfVars, bookVars, plotVars, entVars, nbVars, sourceVars>>

SpecChain == Init /\ [][ChainNext]_vars

Dim == 201

\* xs = np.array([0.2, 0.4, 0.6, 0.8])*L
Xs == <<2, 4, 6, 8>>

\* ws = 0.8
Ws == 8

\* sigma_s = 0.05
SigmaS == 5

\* for i in range(4)
RangeStop == 4

\* Positions an input vector may hold, and the inputs of length dim-1 the
\* model calls f with: t[j] = offset + j*stride, wrapped to the positions.
Positions == 0..10
MaxStride == 3
InputT(offset, stride) ==
    [j \in 1..(Dim - 1) |-> (offset + j * stride) % (Cardinality(Positions))]

\* sps.norm.pdf(t, loc, scale) at one point: a bump at loc whose height
\* falls with the scale.
NormPdf(t, loc, scale) ==
    LET d == IF t >= loc THEN t - loc ELSE loc - t
    IN  IF d = 0 THEN 40 \div scale ELSE IF d = 1 THEN 10 \div scale ELSE 0

\* s += ws * sps.norm.pdf(t, loc=xs[i], scale=sigma_s)   (i counts from 0)
AccumulateOverwriting(s, t, i) ==
    [j \in DOMAIN s |-> Ws * NormPdf(t[j], Xs[i + 1], SigmaS)]
Accumulate(s, t, i) ==
    [j \in DOMAIN s |-> s[j] + Ws * NormPdf(t[j], Xs[i + 1], SigmaS)]

\* f(t) is called: s = np.zeros(dim-1), and the loop starts at i = 0.
FCall(t) ==
    /\ source.pc = "idle"
    /\ source' = [pc |-> "loop", t |-> t, s |-> [j \in 1..(Dim - 1) |-> 0],
                  i |-> 0, added |-> << >>, ret |-> << >>]

\* One iteration of for i in range(4).
FLoop ==
    /\ source.pc = "loop"
    /\ source.i < RangeStop
    /\ source' = [source EXCEPT !.s = Accumulate(source.s, source.t, source.i),
                                !.added = Append(@, source.i),
                                !.i = @ + 1]

\* return s
FReturn ==
    /\ source.pc = "loop"
    /\ source.i = RangeStop
    /\ source' = [source EXCEPT !.pc = "returned", !.ret = source.s]

SourceNext ==
    \/ \E offset \in Positions, stride \in 0..MaxStride :
          FCall(InputT(offset, stride))
          /\ UNCHANGED <<wfVars, bookVars, plotVars, entVars, nbVars, chainVars>>
    \/ FLoop /\ UNCHANGED <<wfVars, bookVars, plotVars, entVars, nbVars, chainVars>>
    \/ FReturn /\ UNCHANGED <<wfVars, bookVars, plotVars, entVars, nbVars, chainVars>>

SpecSource == Init /\ [][SourceNext]_vars

\* C24: for an input t of length dim-1, f returns at every point the sum over
\* exactly the four locations xs[0..3] of ws times the normal density at t
\* with mean xs[i] and scale sigma_s; each location is added once, starting
\* from zero.
C24_SourceIsSumOverFourLocations ==
    /\ (source.pc = "loop" /\ source.i = 0)
          => \A j \in DOMAIN source.s : source.s[j] = 0
    /\ source.pc = "returned" =>
          /\ Len(source.t) = 200
          /\ Len(source.ret) = 200
          /\ source.added = <<0, 1, 2, 3>>
          /\ \A j \in 1..200 :
                source.ret[j] =
                    8 * NormPdf(source.t[j], Xs[1], SigmaS)
                    + 8 * NormPdf(source.t[j], Xs[2], SigmaS)
                    + 8 * NormPdf(source.t[j], Xs[3], SigmaS)
                    + 8 * NormPdf(source.t[j], Xs[4], SigmaS)

\* C24 witness: f has returned for an input that passes through the first
\* and the last location, and through a point next to two locations, where
\* two of them contribute.
C24_Witness ==
    /\ source.pc = "returned"
    /\ \E j, k \in 1..(Dim - 1) :
          /\ source.t[j] = Xs[1] /\ source.ret[j] > 0
          /\ source.t[k] = Xs[4] /\ source.ret[k] > 0
    /\ \E j \in 1..(Dim - 1) :
          source.t[j] = 3 /\ source.ret[j] = 2 * Ws * (10 \div SigmaS)

=============================================================================
